---- MODULE Spec2Model ----
(***************************************************************************)
(* A model of the window messenger (WindowMessenger), of the AMP helper    *)
(* frame with its alternate-origin subscription checker, and of the remote *)
(* frame that answers it.                                                   *)
(*                                                                         *)
(* Every handler of the code is a function from a world (a record of all   *)
(* the program's state) to the world it leaves behind; an action of a      *)
(* specification runs one task of the event loop: one call of the API, or   *)
(* the delivery of one message with all the handlers and promise            *)
(* continuations (microtasks) it triggers.                                  *)
(***************************************************************************)
EXTENDS Integers, Sequences, FiniteSets, TLC

\* ---------------------------------------------------------------- bounds
\* Calls made in one behaviour of Spec: of the API by the two pages, and of
\* window.postMessage by a foreign window.
MaxCalls == 4
\* Calls of the API made in one behaviour of SpecExchange.
MaxOps == 4
\* Alternate origins the helper frame is given to check.
MaxUrls == 2

\* ---------------------------------------------------------------- topics
CONNECT_HANDSHAKE == "topic-connect-handshake"
NOTIFICATION_PERMISSION_STATE == "topic-notification-permission-state"
SERVICE_WORKER_STATE == "topic-service-worker-state"
SERVICE_WORKER_REGISTRATION == "topic-service-worker-registration"
SERVICE_WORKER_QUERY == "topic-service-worker-query"
ORIGIN_SUBSCRIPTION_STATE == "topic-origin-subscription-state"

\* ------------------------------------------------- contexts and messengers
\* A Messenger is named <<kind, index>>; a window likewise.
mL == <<"L", 0>>
mI == <<"I", 0>>
wL == <<"WL", 0>>
wI == <<"WI", 0>>
NoWindow == <<"none", 0>>
\* A window that is neither Messenger's.
Foreign == <<"foreign", 0>>

\* The helper frame's ampMessenger_ and the Messenger of the AMP page that
\* embeds the helper frame; the Messenger isSubscribedToAltOrigin makes for
\* the i-th URL, and the Messenger of the remote frame loaded from it.
mAmp == <<"amp", 0>>
mHost == <<"host", 0>>
Probe(i) == <<"probe", i>>
Remote(i) == <<"remote", i>>
wHelper == <<"helper", 0>>
wPage == <<"page", 0>>
Frame(i) == <<"frame", i>>

Msgrs == {mL, mI, mAmp, mHost} \cup
         {Probe(i) : i \in 1..MaxUrls} \cup {Remote(i) : i \in 1..MaxUrls}
Windows == {wL, wI, wHelper, wPage} \cup {Frame(i) : i \in 1..MaxUrls}

\* The i-th of the URLs the helper frame may be given.
ProbeUrl(i) ==
  CASE i = 1 -> "https://alt1.example/amp-remote-frame.html"
    [] i = 2 -> "https://alt2.example/amp-remote-frame.html"
    [] i = 3 -> "https://alt3.example/amp-remote-frame.html"
    [] OTHER -> "https://alt4.example/amp-remote-frame.html"

\* ------------------------------------------------------------------- URLs
Invalid == "<TypeError: Invalid URL>"

\* new URL(u).origin: scheme and host in lower case, no path, no trailing
\* slash; a string that is no URL throws.
URLOrigin(u) ==
  CASE u = "https://l.example" -> "https://l.example"
    [] u = "https://i.example" -> "https://i.example"
    [] u = "HTTPS://I.Example/" -> "https://i.example"
    [] u = "https://i.example/amp/frame.html" -> "https://i.example"
    [] u = "https://evil.example" -> "https://evil.example"
    [] u = "https://other.example" -> "https://other.example"
    [] u = "https://site.example" -> "https://site.example"
    [] u = "https://page.example" -> "https://page.example"
    [] u = "https://page.example/amp-remote-frame.html" -> "https://page.example"
    [] u = "https://alt1.example/amp-remote-frame.html" -> "https://alt1.example"
    [] u = "https://alt2.example/amp-remote-frame.html" -> "https://alt2.example"
    [] u = "https://alt3.example/amp-remote-frame.html" -> "https://alt3.example"
    [] u = "https://alt4.example/amp-remote-frame.html" -> "https://alt4.example"
    [] u = "https://alt1.example" -> "https://alt1.example"
    [] u = "https://alt2.example" -> "https://alt2.example"
    [] u = "https://alt3.example" -> "https://alt3.example"
    [] u = "https://alt4.example" -> "https://alt4.example"
    [] OTHER -> Invalid

\* options.windowContext of each Messenger.
WindowOf(m) ==
  CASE m = mL -> wL
    [] m = mI -> wI
    [] m = mAmp -> wHelper
    [] m = mHost -> wPage
    [] m[1] = "probe" -> wHelper
    [] m[1] = "remote" -> Frame(m[2])

\* location.origin of each window: what the browser attaches to a message
\* the window posts.
WindowOrigin(win) ==
  CASE win = wL -> "https://l.example"
    [] win = wI -> "https://i.example"
    [] win = wHelper -> "https://site.example"
    [] win = wPage -> "https://page.example"
    [] win[1] = "frame" -> URLOrigin(ProbeUrl(win[2]))

\* ------------------------------------------------------------ the state
VARIABLES
  connected_,      \* [Msgrs -> BOOLEAN]
  listening_,      \* [Msgrs -> BOOLEAN]
  connecting_,     \* [Msgrs -> BOOLEAN]
  messagePort_,    \* [Msgrs -> port]; NoPort is null
  messages_,       \* [Msgrs -> set of Pending Exchanges, one per id at most]
  listeners_,      \* [Msgrs -> [Topics -> sequence of callbacks, or NoList]]
  onListenProc_,   \* [Msgrs -> listen call whose bound receiver the field holds]
  onConnectProc_,  \* [Msgrs -> connect call whose bound receiver the field holds]
  listenCalls,     \* [Msgrs -> sequence of the listen() calls' closures]
  connectCalls,    \* [Msgrs -> sequence of the connect() calls' closures]
  windowListeners, \* [Windows -> sequence of 'message' receivers]
  windowQueue,     \* [Windows -> sequence of posted messages not yet delivered]
  chanCount,       \* [creators -> MessageChannels each created so far]
  portListeners,   \* [ports -> sequence of 'message' receivers]
  portStarted,     \* [ports -> BOOLEAN]
  portQueue,       \* [ports -> sequence of envelopes not yet delivered]
  nextId,          \* [Msgrs -> ids drawn so far (crypto.getRandomValues)]
  nextDeferred,    \* [Msgrs -> deferred results (promises of send) created]
  resolutions,     \* [Msgrs -> sequence of the promiseResolver calls]
  calls,           \* [Msgrs -> sequence of the subscriber callbacks invoked]
  wire,            \* [Msgrs -> sequence of the envelopes it posted on ports]
  broadcasts,      \* [Msgrs -> sequence of its window.postMessage calls]
  finishCalls,     \* [Msgrs -> calls of finishListenHandshake made]
  windowLog,       \* [Windows -> sequence of the messages delivered to it]
  urls,            \* AlternateSubscriptionChecker.urls
  remoteEnv,       \* per URL: what the remote frame finds in its browser
  pcRun,           \* where the helper frame's top-level run() is
  probeIdx,        \* the URL the loop of the checker's run() is at
  probePc,         \* where isSubscribedToAltOrigin is for that URL
  subscriptionState, \* per URL: what subscriptionStatePromise resolved with
  iframes,         \* the URLs whose iframe is in the document
  iframeLog,       \* the URLs an iframe was created for, in order
  pcRemote,        \* per URL: where the remote frame's run() is
  allowedWorkerMessageTopics_, \* [commands -> query whose resolver it holds]
  workerLog,       \* the messages the helper frame posted to its worker
  workerAnswered,  \* how many of them the worker has answered
  errors,          \* set of the uncaught errors
  ncalls           \* calls made

vars == <<connected_, listening_, connecting_, messagePort_, messages_,
          listeners_, onListenProc_, onConnectProc_, listenCalls,
          connectCalls, windowListeners, windowQueue, chanCount,
          portListeners, portStarted, portQueue, nextId, nextDeferred,
          resolutions, calls, wire, broadcasts, finishCalls, windowLog,
          urls, remoteEnv, pcRun, probeIdx, probePc, subscriptionState,
          iframes, iframeLog, pcRemote, allowedWorkerMessageTopics_,
          workerLog, workerAnswered, errors, ncalls>>

\* A port is <<creator, n, 1>> (port1) or <<creator, n, 2>> (port2) of the
\* n-th MessageChannel its creator made.
NoPort == <<NoWindow, 0, 0>>
OtherPort(p) == <<p[1], p[2], 3 - p[3]>>
\* The application topic of the examples, besides the reserved ones.
PING == "ping"
Topics == {PING, CONNECT_HANDSHAKE, NOTIFICATION_PERMISSION_STATE,
           SERVICE_WORKER_STATE, SERVICE_WORKER_REGISTRATION,
           SERVICE_WORKER_QUERY, ORIGIN_SUBSCRIPTION_STATE}
\* this.listeners_[topic] is undefined.
NoList == <<"<undefined>">>
NoExc == ""

\* subscriptionStatePromise is not resolved.
NoState ==
  [notificationPermission |-> "<pending>", serviceWorkerUrl |-> "<pending>",
   serviceWorkerState |-> "<pending>",
   serviceWorkerIsControllingFrame |-> "<pending>",
   serviceWorkerSubscriptionState |-> "<pending>"]

\* No dispatch loop is running.
NoIter == <<NoWindow, "">>

\* The topics of the queries the AMP page has for the service worker, which
\* the helper frame posts to the worker as commands.
WorkerCommands == {"amp-web-push-subscription-state", "amp-web-push-subscribe"}
\* allowedWorkerMessageTopics_[command] is undefined.
NoResolver == <<NoWindow, 0>>

\* The world: the state as one record, plus what lives only inside a task:
\* the exception in flight (exc), and the array the dispatch loop of
\* onChannelMessageReceived_ iterates (iterArr), whose Messenger and topic it
\* is (iterOf), and whether listeners_[topic] still is that array
\* (iterLinked).
World ==
  [connected_ |-> connected_, listening_ |-> listening_,
   connecting_ |-> connecting_, messagePort_ |-> messagePort_,
   messages_ |-> messages_, listeners_ |-> listeners_,
   onListenProc_ |-> onListenProc_, onConnectProc_ |-> onConnectProc_,
   listenCalls |-> listenCalls, connectCalls |-> connectCalls,
   windowListeners |-> windowListeners, windowQueue |-> windowQueue,
   chanCount |-> chanCount, portListeners |-> portListeners,
   portStarted |-> portStarted, portQueue |-> portQueue,
   nextId |-> nextId, nextDeferred |-> nextDeferred,
   resolutions |-> resolutions, calls |-> calls, wire |-> wire,
   broadcasts |-> broadcasts, finishCalls |-> finishCalls,
   windowLog |-> windowLog, urls |-> urls, remoteEnv |-> remoteEnv,
   pcRun |-> pcRun, probeIdx |-> probeIdx, probePc |-> probePc,
   subscriptionState |-> subscriptionState, iframes |-> iframes,
   iframeLog |-> iframeLog, pcRemote |-> pcRemote,
   allowedWorkerMessageTopics_ |-> allowedWorkerMessageTopics_,
   workerLog |-> workerLog, workerAnswered |-> workerAnswered,
   errors |-> errors, ncalls |-> ncalls,
   exc |-> NoExc, iterArr |-> <<>>,
   iterOf |-> NoIter, iterLinked |-> FALSE]

\* The world a task leaves behind becomes the next state.
Commit(w) ==
  /\ connected_' = w.connected_
  /\ listening_' = w.listening_
  /\ connecting_' = w.connecting_
  /\ messagePort_' = w.messagePort_
  /\ messages_' = w.messages_
  /\ listeners_' = w.listeners_
  /\ onListenProc_' = w.onListenProc_
  /\ onConnectProc_' = w.onConnectProc_
  /\ listenCalls' = w.listenCalls
  /\ connectCalls' = w.connectCalls
  /\ windowListeners' = w.windowListeners
  /\ windowQueue' = w.windowQueue
  /\ chanCount' = w.chanCount
  /\ portListeners' = w.portListeners
  /\ portStarted' = w.portStarted
  /\ portQueue' = w.portQueue
  /\ nextId' = w.nextId
  /\ nextDeferred' = w.nextDeferred
  /\ resolutions' = w.resolutions
  /\ calls' = w.calls
  /\ wire' = w.wire
  /\ broadcasts' = w.broadcasts
  /\ finishCalls' = w.finishCalls
  /\ windowLog' = w.windowLog
  /\ urls' = w.urls
  /\ remoteEnv' = w.remoteEnv
  /\ pcRun' = w.pcRun
  /\ probeIdx' = w.probeIdx
  /\ probePc' = w.probePc
  /\ subscriptionState' = w.subscriptionState
  /\ iframes' = w.iframes
  /\ iframeLog' = w.iframeLog
  /\ pcRemote' = w.pcRemote
  /\ errors' = w.errors
  /\ allowedWorkerMessageTopics_' = w.allowedWorkerMessageTopics_
  /\ workerLog' = w.workerLog
  /\ workerAnswered' = w.workerAnswered
  /\ ncalls' = w.ncalls

\* An error nobody catches: reported, and the task goes on with the next
\* receiver.
Uncaught(w) ==
  IF w.exc = NoExc THEN w
  ELSE [w EXCEPT !.errors = @ \cup {w.exc}, !.exc = NoExc]

\* The constructor: every Messenger starts idle, with no port, no exchange
\* and no subscriber.
InitWorld ==
  [connected_ |-> [m \in Msgrs |-> FALSE],
   listening_ |-> [m \in Msgrs |-> FALSE],
   connecting_ |-> [m \in Msgrs |-> FALSE],
   messagePort_ |-> [m \in Msgrs |-> NoPort],
   messages_ |-> [m \in Msgrs |-> {}],
   listeners_ |-> [m \in Msgrs |-> [t \in Topics |-> NoList]],
   onListenProc_ |-> [m \in Msgrs |-> 0],
   onConnectProc_ |-> [m \in Msgrs |-> 0],
   listenCalls |-> [m \in Msgrs |-> <<>>],
   connectCalls |-> [m \in Msgrs |-> <<>>],
   windowListeners |-> [win \in Windows |-> <<>>],
   windowQueue |-> [win \in Windows |-> <<>>],
   chanCount |-> [c \in Msgrs \cup {Foreign} |-> 0],
   portListeners |-> [p \in {} |-> <<>>],
   portStarted |-> [p \in {} |-> FALSE],
   portQueue |-> [p \in {} |-> <<>>],
   nextId |-> [m \in Msgrs |-> 0],
   nextDeferred |-> [m \in Msgrs |-> 0],
   resolutions |-> [m \in Msgrs |-> <<>>],
   calls |-> [m \in Msgrs |-> <<>>],
   wire |-> [m \in Msgrs |-> <<>>],
   broadcasts |-> [m \in Msgrs |-> <<>>],
   finishCalls |-> [m \in Msgrs |-> 0],
   windowLog |-> [win \in Windows |-> <<>>],
   urls |-> <<>>, remoteEnv |-> <<>>, pcRun |-> "idle", probeIdx |-> 0,
   probePc |-> "none",
   subscriptionState |-> [i \in 1..MaxUrls |-> NoState],
   iframes |-> {}, iframeLog |-> <<>>,
   pcRemote |-> [i \in 1..MaxUrls |-> "none"],
   allowedWorkerMessageTopics_ |-> [c \in WorkerCommands |-> NoResolver],
   workerLog |-> <<>>, workerAnswered |-> 0,
   errors |-> {}, ncalls |-> 0,
   exc |-> NoExc, iterArr |-> <<>>, iterOf |-> NoIter, iterLinked |-> FALSE]

\* ------------------------------------------------------- WindowMessenger
\* this.messagePort_.postMessage(payload): the envelope is queued at the
\* other end of the channel; with no port, the property access throws.
PostOnPort(w, m, env) ==
  LET p == w.messagePort_[m]
      q == OtherPort(p)
  IN IF p = NoPort
       THEN [w EXCEPT !.exc = "TypeError: messagePort_ is null"]
       ELSE [w EXCEPT !.portQueue[q] = Append(@, env),
                      !.wire[m] = Append(@, [port |-> p, env |-> env])]

\* Register that keeps an older exchange of the same id beside the new one.
Register_KeepsBoth(w, m, id, topic, data) ==
  [w EXCEPT !.nextDeferred[m] = @ + 1,
            !.messages_[m] = @ \cup
               {[id |-> id, message |-> data, topic |-> topic,
                 promiseResolver |-> w.nextDeferred[m] + 1]}]

\* Register that keeps the newest exchange only.
Register_Evicts(w, m, id, topic, data) ==
  [w EXCEPT !.nextDeferred[m] = @ + 1,
            !.messages_[m] = {[id |-> id, message |-> data, topic |-> topic,
                               promiseResolver |-> w.nextDeferred[m] + 1]}]

\* this.messages_[payload.id] = {message, topic, promiseResolver}, inside
\* the new Promise that send and sendReply_ return.
Register(w, m, id, topic, data) ==
  LET d == w.nextDeferred[m] + 1
  IN [w EXCEPT !.nextDeferred[m] = d,
               !.messages_[m] = {x \in @ : x.id # id} \cup
                  {[id |-> id, message |-> data, topic |-> topic,
                    promiseResolver |-> d]}]

send(w, m, topic, data) ==
  LET id == <<m, w.nextId[m] + 1>>
      w1 == PostOnPort([w EXCEPT !.nextId[m] = @ + 1], m,
                       [id |-> id, topic |-> topic, data |-> data,
                        isReply |-> FALSE])
  IN IF w1.exc # NoExc THEN w1 ELSE Register(w1, m, id, topic, data)

sendReply_(w, m, id, topic, data) ==
  LET w1 == PostOnPort(w, m, [id |-> id, topic |-> topic, data |-> data,
                              isReply |-> TRUE])
  IN IF w1.exc # NoExc THEN w1 ELSE Register(w1, m, id, topic, data)

\* listenThen with the delay flag ignored.
listenThen_NoDelay(w, m, k) ==
  [send(w, m, CONNECT_HANDSHAKE, "null") EXCEPT !.connected_[m] = TRUE]

\* The .then of listen()'s promise: the acknowledgment, unless delayed.
listenThen(w, m, k) ==
  IF w.listenCalls[m][k].delayConnectHandshake
    THEN w
    ELSE LET w1 == send(w, m, CONNECT_HANDSHAKE, "null")
         IN IF w1.exc # NoExc THEN [w1 EXCEPT !.exc = NoExc]
            ELSE [w1 EXCEPT !.connected_[m] = TRUE]

\* resolveListen whose .then never runs.
resolveListen_NoThen(w, m, k) ==
  [w EXCEPT !.listenCalls[m][k].state = "resolved"]

\* resolvePromise() of the k-th listen call: a promise settles once, and its
\* .then runs as a microtask of the same task.
resolveListen(w, m, k) ==
  IF w.listenCalls[m][k].state # "pending" THEN w
  ELSE listenThen([w EXCEPT !.listenCalls[m][k].state = "resolved"], m, k)

NotAnArray == <<"<not an array>">>

\* listen without the check of connected_.
listen_NoConnectedCheck(w, m, allowedOrigins, delayConnectHandshake) ==
  LET k == Len(w.listenCalls[m]) + 1
  IN [w EXCEPT !.listenCalls[m] =
                  Append(@, [allowedOrigins |-> allowedOrigins,
                             delayConnectHandshake |-> delayConnectHandshake,
                             state |-> "pending"]),
               !.onListenProc_[m] = k,
               !.windowListeners[WindowOf(m)] =
                  Append(@, [m |-> m, call |-> k])]

listen(w, m, allowedOrigins, delayConnectHandshake) ==
  LET k == Len(w.listenCalls[m]) + 1
      call(st) == [allowedOrigins |-> allowedOrigins,
                   delayConnectHandshake |-> delayConnectHandshake,
                   state |-> st]
      rejected == [w EXCEPT !.listenCalls[m] = Append(@, call("rejected"))]
  IN IF w.connected_[m] THEN rejected
     ELSE IF w.listening_[m] THEN rejected
     ELSE IF allowedOrigins = NotAnArray THEN rejected
     ELSE [w EXCEPT !.listenCalls[m] = Append(@, call("pending")),
                    !.onListenProc_[m] = k,
                    !.windowListeners[WindowOf(m)] =
                       Append(@, [m |-> m, call |-> k])]

\* finishListenHandshake that marks the Messenger CONNECTED although send
\* threw.
finishListenHandshake_MarksConnected(w, m) ==
  [send([w EXCEPT !.finishCalls[m] = @ + 1], m, CONNECT_HANDSHAKE, "null")
     EXCEPT !.connected_[m] = TRUE]

finishListenHandshake(w, m) ==
  LET w1 == send([w EXCEPT !.finishCalls[m] = @ + 1], m,
                 CONNECT_HANDSHAKE, "null")
  IN IF w1.exc # NoExc THEN w1 ELSE [w1 EXCEPT !.connected_[m] = TRUE]

RECURSIVE AllowedFrom(_, _, _)
AllowedFrom(normalizedOrigin, allowedOrigins, i) ==
  IF i > Len(allowedOrigins) THEN "false"
  ELSE IF URLOrigin(allowedOrigins[i]) = Invalid THEN "throws"
  ELSE IF URLOrigin(allowedOrigins[i]) = normalizedOrigin THEN "true"
  ELSE AllowedFrom(normalizedOrigin, allowedOrigins, i + 1)

\* isAllowedOrigin_ that compares the strings as they are.
isAllowedOrigin_Raw(origin, allowedOrigins) ==
  IF \E i \in 1..Len(allowedOrigins) : allowedOrigins[i] = origin
    THEN "true" ELSE "false"

\* "true", "false", or "throws" when new URL() rejects the origin or an
\* entry of the list reached before a match.
isAllowedOrigin_(origin, allowedOrigins) ==
  IF URLOrigin(origin) = Invalid THEN "throws"
  ELSE AllowedFrom(URLOrigin(origin), allowedOrigins, 1)

\* removeEventListener that leaves the receiver registered.
Unregister_Keeps(list, receiver) == list

\* removeEventListener: the receiver, if registered, leaves the list.
Unregister(list, receiver) == SelectSeq(list, LAMBDA x : x # receiver)

\* onListenConnectionMessageReceived_ without the check of the topic.
onListenConnectionMessageReceived_NoTopic(w, m, k, ev) ==
  LET p == ev.port
      w1 == [w EXCEPT !.windowListeners[WindowOf(m)] =
               Unregister(@, [m |-> m, call |-> w.onListenProc_[m]])]
  IN IF isAllowedOrigin_(ev.origin, w.listenCalls[m][k].allowedOrigins)
          # "true" THEN w
     ELSE resolveListen(
            [w1 EXCEPT !.messagePort_[m] = p,
                       !.portListeners[p] =
                          Append(@, [m |-> m, kind |-> "channel", call |-> 0]),
                       !.portStarted[p] = TRUE],
            m, k)

\* The receiver the k-th listen call registered on the window; ev is the
\* MessageEvent: [topic, origin, port].
onListenConnectionMessageReceived_(w, m, k, ev) ==
  LET call == w.listenCalls[m][k]
      allowed == isAllowedOrigin_(ev.origin, call.allowedOrigins)
      p == ev.port
      w1 == [w EXCEPT !.windowListeners[WindowOf(m)] =
               Unregister(@, [m |-> m, call |-> w.onListenProc_[m]])]
  IN IF allowed = "throws" THEN [w EXCEPT !.exc = Invalid]
     ELSE IF allowed = "false" THEN w
     ELSE IF ev.topic # CONNECT_HANDSHAKE THEN w
     ELSE IF p = NoPort
       THEN [w1 EXCEPT !.messagePort_[m] = NoPort,
                       !.exc = "TypeError: messagePort_ is undefined"]
     ELSE resolveListen(
            [w1 EXCEPT !.messagePort_[m] = p,
                       !.portListeners[p] =
                          Append(@, [m |-> m, kind |-> "channel", call |-> 0]),
                       !.portStarted[p] = TRUE],
            m, k)

\* window.postMessage(message, targetOrigin, [port]) called by `from`: the
\* browser delivers it only to a window of the target origin.
PostToWindow(w, from, fromOrigin, target, targetOrigin, topic, port) ==
  LET w1 == IF from \in Msgrs
              THEN [w EXCEPT !.broadcasts[from] =
                      Append(@, [to |-> target, targetOrigin |-> targetOrigin,
                                 topic |-> topic, port |-> port])]
              ELSE w
  IN IF targetOrigin = "*" \/ targetOrigin = WindowOrigin(target)
       THEN [w1 EXCEPT !.windowQueue[target] =
               Append(@, [topic |-> topic, origin |-> fromOrigin,
                          port |-> port])]
       ELSE w1

\* No expectedRemoteOrigin was given.
NoOrigin == ""

\* new MessageChannel(), made by `creator`: two entangled ports, neither
\* started, nothing queued.
NewMessageChannel(w, creator) ==
  LET n == w.chanCount[creator] + 1
      new == {<<creator, n, 1>>, <<creator, n, 2>>}
      Ext(f, v) == [p \in DOMAIN f \cup new |->
                     IF p \in DOMAIN f THEN f[p] ELSE v]
  IN [w EXCEPT !.chanCount[creator] = n,
               !.portListeners = Ext(@, <<>>),
               !.portStarted = Ext(@, FALSE),
               !.portQueue = Ext(@, <<>>)]

connect(w, m, remoteWindowContext, expectedRemoteOrigin) ==
  LET k == Len(w.connectCalls[m]) + 1
      call(st, port) == [state |-> st, port |-> port,
                         remoteWindowContext |-> remoteWindowContext,
                         expectedRemoteOrigin |-> expectedRemoteOrigin]
      \* reject() without return: the promise is settled, the code goes on.
      early == remoteWindowContext = NoWindow \/ expectedRemoteOrigin = NoOrigin
      port1 == <<m, w.chanCount[m] + 1, 1>>
      targetOrigin == IF expectedRemoteOrigin = "*" THEN "*"
                      ELSE URLOrigin(expectedRemoteOrigin)
      \* postMessage throws inside the executor: the promise rejects.
      throws == remoteWindowContext = NoWindow \/ targetOrigin = Invalid
      w0 == NewMessageChannel(w, m)
      w1 == [w0 EXCEPT
               !.messagePort_[m] = port1,
               !.onConnectProc_[m] = k,
               !.portListeners[port1] =
                  Append(@, [m |-> m, kind |-> "connect", call |-> k]),
               !.portStarted[port1] = TRUE,
               !.connectCalls[m] =
                  Append(@, call(IF early \/ throws THEN "rejected"
                                 ELSE "pending", port1))]
      \* the origin of the calling window; a remote frame's is that of the
      \* URL its iframe was given
      origin == IF m[1] = "remote" THEN URLOrigin(w.urls[m[2]])
                ELSE WindowOrigin(WindowOf(m))
  IN IF w.connected_[m] THEN
       [w EXCEPT !.connectCalls[m] = Append(@, call("rejected", NoPort))]
     ELSE IF w.connecting_[m] THEN
       [w EXCEPT !.connectCalls[m] = Append(@, call("rejected", NoPort))]
     ELSE IF throws THEN w1
     ELSE PostToWindow(w1, m, origin, remoteWindowContext,
                       targetOrigin, CONNECT_HANDSHAKE, OtherPort(port1))

\* --------------------------------------------------------- AmpRemoteFrame
\* JavaScript's undefined, in a state report.
Undefined == "undefined"

\* getSubscriptionState of the remote frame of the i-th URL, with what the
\* worker answered (Undefined before it did, or with no controller).
SubscriptionStateOf(env, workerReply) ==
  [notificationPermission |-> env.permission,
   serviceWorkerUrl |-> IF env.controller THEN env.scriptURL ELSE Undefined,
   serviceWorkerState |-> IF env.controller THEN env.workerState
                          ELSE Undefined,
   serviceWorkerIsControllingFrame |-> IF env.controller THEN "true"
                                       ELSE Undefined,
   serviceWorkerSubscriptionState |-> workerReply]

\* messenger.send(ORIGIN_SUBSCRIPTION_STATE, subscriptionState), the last
\* statement of the remote frame's run(); what it throws rejects run().
AmpRemoteFrame_sendState(w, i, state) ==
  LET w1 == send(w, Remote(i), ORIGIN_SUBSCRIPTION_STATE, state)
  IN [w1 EXCEPT !.exc = NoExc, !.pcRemote[i] = "sent"]

\* run() of the remote frame, after `await messenger.connect(...)`:
\* getSubscriptionState up to its await of the worker's reply, or to its end
\* when no worker controls the frame.
AmpRemoteFrame_connected(w, i) ==
  IF w.remoteEnv[i].controller
    THEN [w EXCEPT !.pcRemote[i] = "awaitWorker"]
    ELSE AmpRemoteFrame_sendState(w, i,
           SubscriptionStateOf(w.remoteEnv[i], Undefined))

\* The worker's reply reaches onPageMessageReceivedFromServiceWorker_: the
\* promise of messageServiceWorkerAndAwaitReply resolves, the report is sent.
AmpRemoteFrame_workerReplied(w, i) ==
  AmpRemoteFrame_sendState(w, i,
    SubscriptionStateOf(w.remoteEnv[i], w.remoteEnv[i].workerReply))

\* run() of the remote frame up to `await messenger.connect(window.parent,
\* '*')`.
AmpRemoteFrame_run(w, i) ==
  LET w1 == connect(w, Remote(i), wHelper, "*")
  IN [w1 EXCEPT !.pcRemote[i] = "connecting"]

\* resolve() of the k-th connect call: a promise settles once, and what
\* awaits it goes on as a microtask of the same task.
resolveConnect(w, m, k) ==
  IF w.connectCalls[m][k].state # "pending" THEN w
  ELSE LET w1 == [w EXCEPT !.connectCalls[m][k].state = "resolved"]
       IN IF m[1] = "remote" THEN AmpRemoteFrame_connected(w1, m[2]) ELSE w1

\* The receiver the k-th connect call registered on its port1 (messagePort
\* is the port bound to it).
onConnectConnectionMessageReceived_(w, m, messagePort, k) ==
  resolveConnect(
    [w EXCEPT
       !.connected_[m] = TRUE,
       !.portListeners[messagePort] =
          Append(Unregister(@, [m |-> m, kind |-> "connect",
                                call |-> w.onConnectProc_[m]]),
                 [m |-> m, kind |-> "channel", call |-> 0])],
    m, k)

\* No callback was given to off.
NoCallback == "<undefined>"

on(w, m, topic, callback) ==
  LET linked == w.iterLinked /\ w.iterOf = <<m, topic>>
  IN IF w.listeners_[m][topic] # NoList
       THEN [w EXCEPT !.listeners_[m][topic] = Append(@, callback),
                      !.iterArr = IF linked THEN Append(@, callback) ELSE @]
       ELSE [w EXCEPT !.listeners_[m][topic] = <<callback>>]

\* The index of the first occurrence of x in list, 0 when there is none.
IndexOf(list, x) ==
  IF \E i \in 1..Len(list) : list[i] = x
    THEN CHOOSE i \in 1..Len(list) :
           list[i] = x /\ \A j \in 1..(i - 1) : list[j] # x
    ELSE 0

\* splice(index, 1)
Splice(list, index) ==
  SubSeq(list, 1, index - 1) \o SubSeq(list, index + 1, Len(list))

\* off that removes nothing.
off_KeepsCallback(w, m, topic, callback) == w

off(w, m, topic, callback) ==
  LET list == w.listeners_[m][topic]
      linked == w.iterLinked /\ w.iterOf = <<m, topic>>
      callbackIndex == IndexOf(list, callback)
  IN IF callback # NoCallback
       THEN IF list = NoList
              THEN [w EXCEPT !.exc = "TypeError: listeners_[topic] is undefined"]
            ELSE IF callbackIndex # 0
              THEN [w EXCEPT !.listeners_[m][topic] = Splice(@, callbackIndex),
                             !.iterArr = IF linked THEN Splice(@, callbackIndex)
                                         ELSE @]
            ELSE w
       ELSE IF list # NoList
              THEN [w EXCEPT !.listeners_[m][topic] = NoList,
                             !.iterLinked = IF linked THEN FALSE ELSE @]
            ELSE w

\* ----------------------------------------------------- the helper frame
\* The parentOrigin query parameter of the helper frame's URL.
ParentOrigin == "https://page.example"

getParentOrigin_ == ParentOrigin

\* listenPartially with a listen whose handshake is not delayed.
listenPartially_NoDelay(w) ==
  listen(on(w, mAmp, NOTIFICATION_PERMISSION_STATE,
            "onAmpPageMessageReceivedNotificationPermissionState_"),
         mAmp, <<getParentOrigin_>>, FALSE)

\* listenPartially(null): four subscribers, then a listen whose handshake
\* is delayed.
listenPartially(w) ==
  LET w1 == on(w, mAmp, NOTIFICATION_PERMISSION_STATE,
               "onAmpPageMessageReceivedNotificationPermissionState_")
      w2 == on(w1, mAmp, SERVICE_WORKER_STATE,
               "onAmpPageMessageReceivedServiceWorkerState_")
      w3 == on(w2, mAmp, SERVICE_WORKER_REGISTRATION,
               "onAmpPageMessageReceivedServiceWorkerRegistration_")
      w4 == on(w3, mAmp, SERVICE_WORKER_QUERY,
               "onAmpPageMessageReceivedServiceWorkerQuery_")
  IN listen(w4, mAmp, <<getParentOrigin_>>, TRUE)

\* serviceWorkerUrl.indexOf('OneSignalSDKWorker.js') !== -1
HasWorkerFragment(url) ==
  CASE url = "https://alt.example/OneSignalSDKWorker.js?appId=1" -> TRUE
    [] url = "https://alt.example/OneSignalSDKWorker.js" -> TRUE
    [] OTHER -> FALSE

\* IsSubscribed that does not look at the worker's script URL.
IsSubscribed_NoFragment(st) ==
  IF st.notificationPermission # "granted" THEN "false"
  ELSE IF st.serviceWorkerIsControllingFrame # "true" THEN "false"
  ELSE IF st.serviceWorkerState # "activated" THEN "false"
  ELSE IF st.serviceWorkerSubscriptionState # "true" THEN "false"
  ELSE "true"

\* The conjunction isSubscribedToAltOrigin returns: "true", "false", or
\* "throws" when the first four hold and serviceWorkerUrl is undefined.
IsSubscribed(st) ==
  IF st.notificationPermission # "granted" THEN "false"
  ELSE IF st.serviceWorkerIsControllingFrame # "true" THEN "false"
  ELSE IF st.serviceWorkerState # "activated" THEN "false"
  ELSE IF st.serviceWorkerSubscriptionState # "true" THEN "false"
  ELSE IF st.serviceWorkerUrl = Undefined THEN "throws"
  ELSE IF HasWorkerFragment(st.serviceWorkerUrl) THEN "true"
  ELSE "false"

\* document.body.appendChild(iframe) with iframe.src = urls[i].
createIframe(w, i) ==
  [w EXCEPT !.iframes = @ \cup {i}, !.iframeLog = Append(@, i)]

\* removeIframe that leaves the iframe in the document.
removeIframe_Keeps(w, i) == w

\* document.body.removeChild of the iframe of urls[i], if there is one.
removeIframe(w, i) == [w EXCEPT !.iframes = @ \ {i}]

\* isSubscribedToAltOrigin that presumes a report with nothing in it until
\* the target's own arrives.
isSubscribedToAltOrigin_Presumed(w, i) ==
  createIframe(
    [listen(on(w, Probe(i), ORIGIN_SUBSCRIPTION_STATE, "resolve"), Probe(i),
            <<URLOrigin(w.urls[i])>>, FALSE)
       EXCEPT !.probeIdx = i, !.probePc = "awaitLoad",
              !.subscriptionState[i] =
                 [notificationPermission |-> "default",
                  serviceWorkerUrl |-> Undefined,
                  serviceWorkerState |-> Undefined,
                  serviceWorkerIsControllingFrame |-> Undefined,
                  serviceWorkerSubscriptionState |-> Undefined]], i)

\* isSubscribedToAltOrigin(urls[i]) up to `await this.createIframe(url)`.
isSubscribedToAltOrigin(w, i) ==
  LET m == Probe(i)
      w1 == on(w, m, ORIGIN_SUBSCRIPTION_STATE, "resolve")
  IN IF URLOrigin(w.urls[i]) = Invalid
       THEN [w1 EXCEPT !.probeIdx = i, !.probePc = "rejected"]
       ELSE createIframe(
              [listen(w1, m, <<URLOrigin(w.urls[i])>>, FALSE)
                 EXCEPT !.probeIdx = i, !.probePc = "awaitLoad"], i)

\* The top-level run() after `await subscriptionChecker.run()`: what
\* finishListenHandshake throws rejects the promise run() returned.
runAfterChecker(w) ==
  LET w1 == finishListenHandshake(w, mAmp)
  IN IF w1.exc # NoExc
       THEN [w1 EXCEPT !.exc = NoExc, !.pcRun = "rejected"]
       ELSE [w1 EXCEPT !.pcRun = "done"]

\* AlternateSubscriptionChecker.run() from the i-th URL on: the next URL's
\* check begins, or the loop is over and run() resolves.
checkerRunFrom(w, i) ==
  IF i > Len(w.urls)
    THEN runAfterChecker([w EXCEPT !.probePc = "complete"])
    ELSE isSubscribedToAltOrigin(w, i)

\* afterSubscriptionState without timeoutForever.
afterSubscriptionState_NoFreeze(w, i) == checkerRunFrom(removeIframe(w, i), i + 1)

\* isSubscribedToAltOrigin(urls[i]) after `await subscriptionStatePromise`,
\* and the body of the loop of run() after it.
afterSubscriptionState(w, i) ==
  LET w1 == removeIframe(w, i)
      isSubscribed == IsSubscribed(w.subscriptionState[i])
  IN IF isSubscribed = "throws" THEN [w1 EXCEPT !.probePc = "rejected"]
     ELSE IF isSubscribed = "true" THEN [w1 EXCEPT !.probePc = "frozen"]
     ELSE checkerRunFrom(w1, i + 1)

\* iframeOnload that does not await subscriptionStatePromise.
iframeOnload_NoAwait(w, i) == afterSubscriptionState(w, i)

\* iframe.onload of the iframe of urls[i]: createIframe's promise resolves,
\* and the check goes on to `await subscriptionStatePromise`.
iframeOnload(w, i) ==
  IF w.subscriptionState[i] # NoState
    THEN afterSubscriptionState(w, i)
    ELSE [w EXCEPT !.probePc = "awaitState"]

\* resolveSubscriptionState of a subscriber that is registered only once
\* the iframe has loaded: a report that comes earlier is dropped.
resolveSubscriptionState_AfterLoad(w, i, message) ==
  IF w.probeIdx = i /\ w.probePc = "awaitState" /\ w.subscriptionState[i] = NoState
    THEN afterSubscriptionState([w EXCEPT !.subscriptionState[i] = message], i)
    ELSE w

\* resolve(message) of subscriptionStatePromise: it settles once.
resolveSubscriptionState(w, i, message) ==
  IF w.subscriptionState[i] # NoState THEN w
  ELSE LET w1 == [w EXCEPT !.subscriptionState[i] = message]
       IN IF w.probeIdx = i /\ w.probePc = "awaitState"
            THEN afterSubscriptionState(w1, i)
            ELSE w1

\* run(urlsToCheck) of the helper frame, up to its first await.
run(w) ==
  LET w1 == listenPartially([w EXCEPT !.pcRun = "checking"])
  IN checkerRunFrom(w1, 1)

\* The AMP page's query (message.data is its topic, "null" for a message
\* without one) reaches the helper frame: the topic is allowed, its resolver
\* being this query's, and the query is posted to the worker, which
\* controls the page. The query is known by the id of its envelope.
onAmpPageMessageReceivedServiceWorkerQuery_(w, message) ==
  IF message.data = "null"
    THEN [w EXCEPT !.exc = "Error: Expected argument topic in message"]
    ELSE [w EXCEPT !.allowedWorkerMessageTopics_[message.data] = message.id,
                   !.workerLog = Append(@, [id |-> message.id,
                                            command |-> message.data])]

\* A 'message' event of the service worker: the resolver allowed for the
\* command, if there is one, is called; the .then of its promise deletes
\* the command and answers its query through the reply-sender it was given.
onPageMessageReceivedFromServiceWorker_(w, command, payload) ==
  LET callbackPromiseResolver == w.allowedWorkerMessageTopics_[command]
  IN IF callbackPromiseResolver = NoResolver THEN w
     ELSE sendReply_(
            [w EXCEPT !.allowedWorkerMessageTopics_[command] = NoResolver],
            mAmp, callbackPromiseResolver, SERVICE_WORKER_QUERY, payload)

\* What the subscriber "cbReply" answers to a payload.
Answer(data) ==
  CASE data = "d1" -> "answer to d1"
    [] data = "d2" -> "answer to d2"
    [] OTHER -> "pong"

\* A subscriber callback runs: what it was given is recorded, then it does
\* what its kind does with the reply-sender bound to (id, topic).
InvokeListener(w, m, callback, message) ==
  LET w1 == [w EXCEPT !.calls[m] =
               Append(@, [callback |-> callback,
                          data |-> message.data, id |-> message.id,
                          topic |-> message.topic])]
  IN CASE callback = "cbReply" ->
            sendReply_(w1, m, message.id, message.topic, Answer(message.data))
       [] callback = "resolve" ->
            resolveSubscriptionState(w1, m[2], message.data)
       [] callback = "onAmpPageMessageReceivedServiceWorkerQuery_" ->
            onAmpPageMessageReceivedServiceWorkerQuery_(w1, message)
       [] callback = "cbOnce" -> off(w1, m, message.topic, "cbOnce")
       [] callback = "cbSubscribe" -> on(w1, m, message.topic, "cbNote")
       [] OTHER -> w1

\* DispatchFrom that stops after one listener.
DispatchFrom_FirstOnly(w, m, message, i) ==
  IF i > Len(w.iterArr) THEN w
  ELSE InvokeListener(w, m, w.iterArr[i], message)

\* for (let i = 0; i < listeners.length; i++) listeners[i](...)
RECURSIVE DispatchFrom(_, _, _, _)
DispatchFrom(w, m, message, i) ==
  IF i > Len(w.iterArr) THEN w
  ELSE LET w1 == InvokeListener(w, m, w.iterArr[i], message)
       IN IF w1.exc # NoExc THEN w1
          ELSE DispatchFrom(w1, m, message, i + 1)

\* promiseResolver([data, sendReply_ bound to (id, topic)]) is called.
Resolve(w, m, deferred, data, id, topic) ==
  [w EXCEPT !.resolutions[m] =
     Append(@, [deferred |-> deferred, data |-> data,
                replyId |-> id, replyTopic |-> topic])]

\* onChannelMessageReceived_ without the delete of the Pending Exchange.
onChannelMessageReceived_NoDelete(w, m, message) ==
  LET found == {x \in w.messages_[m] : x.id = message.id}
      existingMessage == CHOOSE x \in found : TRUE
      listeners == w.listeners_[m][message.topic]
  IN IF found # {} /\ message.isReply
       THEN Resolve(w, m, existingMessage.promiseResolver, message.data,
                    message.id, existingMessage.topic)
     ELSE IF listeners = NoList THEN w
     ELSE DispatchFrom([w EXCEPT !.iterArr = listeners,
                                 !.iterOf = <<m, message.topic>>,
                                 !.iterLinked = TRUE],
                       m, message, 1)

\* onChannelMessageReceived_ that hands a reply to a Pending Exchange to
\* the subscribers of its topic as well.
onChannelMessageReceived_ReplyDispatches(w, m, message) ==
  LET found == {x \in w.messages_[m] : x.id = message.id}
      existingMessage == CHOOSE x \in found : TRUE
      listeners == w.listeners_[m][message.topic]
      w0 == IF found # {} /\ message.isReply
              THEN Resolve([w EXCEPT !.messages_[m] = @ \ found], m,
                           existingMessage.promiseResolver, message.data,
                           message.id, existingMessage.topic)
              ELSE w
  IN IF listeners = NoList THEN w0
     ELSE DispatchFrom([w0 EXCEPT !.iterArr = listeners,
                                  !.iterOf = <<m, message.topic>>,
                                  !.iterLinked = TRUE],
                       m, message, 1)

\* onChannelMessageReceived_ that drops a reply whose id has no Pending
\* Exchange.
onChannelMessageReceived_DropsReplies(w, m, message) ==
  LET found == {x \in w.messages_[m] : x.id = message.id}
      existingMessage == CHOOSE x \in found : TRUE
      listeners == w.listeners_[m][message.topic]
  IN IF found # {} /\ message.isReply
       THEN Resolve([w EXCEPT !.messages_[m] = @ \ found], m,
                    existingMessage.promiseResolver, message.data,
                    message.id, existingMessage.topic)
     ELSE IF listeners = NoList \/ message.isReply THEN w
     ELSE DispatchFrom([w EXCEPT !.iterArr = listeners,
                                 !.iterOf = <<m, message.topic>>,
                                 !.iterLinked = TRUE],
                       m, message, 1)

onChannelMessageReceived_(w, m, message) ==
  LET found == {x \in w.messages_[m] : x.id = message.id}
      existingMessage == CHOOSE x \in found : TRUE
      listeners == w.listeners_[m][message.topic]
  IN IF found # {} /\ message.isReply
       THEN Resolve([w EXCEPT !.messages_[m] = @ \ found], m,
                    existingMessage.promiseResolver, message.data,
                    message.id, existingMessage.topic)
     ELSE IF listeners = NoList THEN w
     ELSE LET w1 == DispatchFrom(
                      [w EXCEPT !.iterArr = listeners,
                                !.iterOf = <<m, message.topic>>,
                                !.iterLinked = TRUE],
                      m, message, 1)
          IN [w1 EXCEPT !.iterArr = <<>>, !.iterOf = NoIter,
                        !.iterLinked = FALSE]

\* -------------------------------------------------------------- transport
IsRegistered(list, receiver) == \E i \in 1..Len(list) : list[i] = receiver

\* A 'message' event on a window: every receiver registered when dispatch
\* began runs, unless it was removed meanwhile; the microtasks of one run
\* before the next.
RECURSIVE RunWindowReceivers(_, _, _, _)
RunWindowReceivers(w, win, snapshot, ev) ==
  IF snapshot = <<>> THEN w
  ELSE LET r == Head(snapshot)
           w1 == IF IsRegistered(w.windowListeners[win], r)
                   THEN Uncaught(onListenConnectionMessageReceived_(
                                   w, r.m, r.call, ev))
                   ELSE w
       IN RunWindowReceivers(w1, win, Tail(snapshot), ev)

DeliverToWindow(w, win) ==
  RunWindowReceivers([w EXCEPT !.windowQueue[win] = Tail(@),
                               !.windowLog[win] =
                                  Append(@, Head(w.windowQueue[win]))], win,
                     w.windowListeners[win], Head(w.windowQueue[win]))

\* PortReceiver whose connect receiver hands the message on to the
\* dispatcher.
PortReceiver_Dispatches(w, r, p, ev) ==
  IF r.kind = "connect"
    THEN onChannelMessageReceived_(
           onConnectConnectionMessageReceived_(w, r.m, p, r.call), r.m, ev)
    ELSE onChannelMessageReceived_(w, r.m, ev)

PortReceiver(w, r, p, ev) ==
  IF r.kind = "connect"
    THEN onConnectConnectionMessageReceived_(w, r.m, p, r.call)
    ELSE onChannelMessageReceived_(w, r.m, ev)

\* A 'message' event on a port.
RECURSIVE RunPortReceivers(_, _, _, _)
RunPortReceivers(w, p, snapshot, ev) ==
  IF snapshot = <<>> THEN w
  ELSE LET r == Head(snapshot)
           w1 == IF IsRegistered(w.portListeners[p], r)
                   THEN Uncaught(PortReceiver(w, r, p, ev))
                   ELSE w
       IN RunPortReceivers(w1, p, Tail(snapshot), ev)

DeliverToPort(w, p) ==
  RunPortReceivers([w EXCEPT !.portQueue[p] = Tail(@)], p,
                   w.portListeners[p], Head(w.portQueue[p]))

\* --------------------------------------------------- Spec: the handshake
\* Messenger L listens in window WL and Messenger I connects from window WI,
\* each called in any order and with any arguments of its role; a foreign
\* window posts what it likes to WL.
AllowLists == {<<"https://i.example">>, <<"https://other.example">>}
Targets == {wL, NoWindow}
ExpectedOrigins == {"*", "https://l.example", NoOrigin}
ForeignOrigins == {"https://evil.example", "https://i.example"}
ForeignTopics == {CONNECT_HANDSHAKE, PING}

\* One call of the API by the page's code: what it throws, nobody catches.
Called(w) == Uncaught([w EXCEPT !.ncalls = @ + 1])

\* The state is the world w.
Start(w) ==
  /\ connected_ = w.connected_
  /\ listening_ = w.listening_
  /\ connecting_ = w.connecting_
  /\ messagePort_ = w.messagePort_
  /\ messages_ = w.messages_
  /\ listeners_ = w.listeners_
  /\ onListenProc_ = w.onListenProc_
  /\ onConnectProc_ = w.onConnectProc_
  /\ listenCalls = w.listenCalls
  /\ connectCalls = w.connectCalls
  /\ windowListeners = w.windowListeners
  /\ windowQueue = w.windowQueue
  /\ chanCount = w.chanCount
  /\ portListeners = w.portListeners
  /\ portStarted = w.portStarted
  /\ portQueue = w.portQueue
  /\ nextId = w.nextId
  /\ nextDeferred = w.nextDeferred
  /\ resolutions = w.resolutions
  /\ calls = w.calls
  /\ wire = w.wire
  /\ broadcasts = w.broadcasts
  /\ finishCalls = w.finishCalls
  /\ windowLog = w.windowLog
  /\ urls = w.urls
  /\ remoteEnv = w.remoteEnv
  /\ pcRun = w.pcRun
  /\ probeIdx = w.probeIdx
  /\ probePc = w.probePc
  /\ subscriptionState = w.subscriptionState
  /\ iframes = w.iframes
  /\ iframeLog = w.iframeLog
  /\ pcRemote = w.pcRemote
  /\ errors = w.errors
  /\ allowedWorkerMessageTopics_ = w.allowedWorkerMessageTopics_
  /\ workerLog = w.workerLog
  /\ workerAnswered = w.workerAnswered
  /\ ncalls = w.ncalls

Init == Start(InitWorld)

Listen ==
  \E a \in AllowLists, d \in BOOLEAN :
    /\ ncalls < MaxCalls
    /\ Commit(Called(listen(World, mL, a, d)))

FinishListenHandshake ==
  /\ ncalls < MaxCalls
  /\ Commit(Called(finishListenHandshake(World, mL)))

On ==
  /\ ncalls < MaxCalls
  /\ Commit(Called(on(World, mL, PING, "cbReply")))

Connect ==
  \E t \in Targets, o \in ExpectedOrigins :
    /\ ncalls < MaxCalls
    /\ Commit(Called(connect(World, mI, t, o)))

Send ==
  /\ ncalls < MaxCalls
  /\ Commit(Called(send(World, mI, PING, "ping")))

\* A foreign window posts a message to WL, handing over a port of a channel
\* of its own.
PostForeign ==
  \E o \in ForeignOrigins, t \in ForeignTopics :
    /\ ncalls < MaxCalls
    /\ LET w1 == NewMessageChannel(World, Foreign)
           port2 == <<Foreign, w1.chanCount[Foreign], 2>>
       IN Commit(Called(PostToWindow(w1, Foreign, o, wL, "*", t, port2)))

DeliverWindow ==
  \E win \in Windows :
    /\ windowQueue[win] # <<>>
    /\ Commit(DeliverToWindow(World, win))

\* A remote frame's context lives as long as its iframe is in the document.
Alive(m) == m[1] = "remote" => m[2] \in iframes

DeliverPort ==
  \E p \in DOMAIN portQueue :
    /\ portStarted[p]
    /\ portQueue[p] # <<>>
    /\ \A j \in 1..Len(portListeners[p]) : Alive(portListeners[p][j].m)
    /\ Commit(DeliverToPort(World, p))

Next ==
  \/ Listen
  \/ FinishListenHandshake
  \/ On
  \/ Connect
  \/ Send
  \/ PostForeign
  \/ DeliverWindow
  \/ DeliverPort

Spec == Init /\ [][Next]_vars

\* ------------------------------------------------------- claims on Spec
IsAck(x) == x.env.topic = CONNECT_HANDSHAKE /\ ~x.env.isReply

\* The acknowledgments m transmitted on a private sub-channel.
AcksSent(m) == {i \in 1..Len(wire[m]) : IsAck(wire[m][i])}

\* Every listen call made on m asked to delay the handshake.
ListensDelayed(m) ==
  /\ listenCalls[m] # <<>>
  /\ \A k \in 1..Len(listenCalls[m]) :
       listenCalls[m][k].delayConnectHandshake

\* C1: a Messenger whose listen was called with delayConnectHandshake=true
\* is not CONNECTED and has transmitted no acknowledgment as long as
\* finishListenHandshake has not been invoked on it, also after it accepted
\* a handshake broadcast and its listen resolved.
C1_SuspendedUntilFinish ==
  \A m \in Msgrs :
    (ListensDelayed(m) /\ finishCalls[m] = 0) =>
      (~connected_[m] /\ AcksSent(m) = {})

\* A delayed listen has accepted a broadcast and resolved, and the handshake
\* is still suspended.
C1_Witness ==
  /\ ListensDelayed(mL)
  /\ finishCalls[mL] = 0
  /\ \E k \in 1..Len(listenCalls[mL]) : listenCalls[mL][k].state = "resolved"
  /\ messagePort_[mL] # NoPort
  /\ ~connected_[mL]

\* The origin is an entry of the list, both normalized.
InAllowList(origin, allowedOrigins) ==
  \E i \in 1..Len(allowedOrigins) :
    /\ URLOrigin(allowedOrigins[i]) # Invalid
    /\ URLOrigin(allowedOrigins[i]) = URLOrigin(origin)

\* No receiver registered on win accepts ev: for each, the origin is not in
\* its allow-list or the topic is not the connect-handshake topic.
Discarded(win, ev) ==
  \A i \in 1..Len(windowListeners[win]) :
    LET r == windowListeners[win][i]
    IN \/ ~InAllowList(ev.origin, listenCalls[r.m][r.call].allowedOrigins)
       \/ ev.topic # CONNECT_HANDSHAKE

\* A message is delivered to win in this step.
Delivers(win) ==
  /\ windowQueue[win] # <<>>
  /\ windowLog'[win] = Append(windowLog[win], Head(windowQueue[win]))

\* C8: the delivery of a broadcast message whose origin is not in the
\* listener's allow-list, or whose topic is not the connect-handshake topic,
\* changes nothing: the receivers stay registered, no sub-channel is adopted,
\* listen stays pending, nobody becomes CONNECTED, nothing is transmitted.
C8_DiscardedUnchanged ==
  [][\A win \in Windows :
       (Delivers(win) /\ Discarded(win, Head(windowQueue[win]))) =>
          /\ windowListeners' = windowListeners
          /\ messagePort_' = messagePort_
          /\ listenCalls' = listenCalls
          /\ connected_' = connected_
          /\ wire' = wire
          /\ broadcasts' = broadcasts
          /\ portListeners' = portListeners
          /\ portStarted' = portStarted
          /\ portQueue' = portQueue
          /\ messages_' = messages_
          /\ errors' = errors]_vars

\* A message of the handshake topic from a foreign origin, and one from the
\* allowed origin with another topic, were delivered to a listener that is
\* still listening.
BadOrigin(ev) == ev.topic = CONNECT_HANDSHAKE /\ ev.origin = "https://evil.example"
BadTopic(ev) == ev.topic # CONNECT_HANDSHAKE /\ ev.origin = "https://i.example"

C8_Witness ==
  /\ \E i \in 1..Len(windowLog[wL]) : BadOrigin(windowLog[wL][i])
  /\ \E i \in 1..Len(windowLog[wL]) : BadTopic(windowLog[wL][i])
  /\ listenCalls[mL] = <<[allowedOrigins |-> <<"https://i.example">>,
                          delayConnectHandshake |-> FALSE,
                          state |-> "pending"]>>
  /\ windowListeners[wL] = <<[m |-> mL, call |-> 1]>>

\* The receivers m has registered on its window.
ReceiversOf(m) ==
  SelectSeq(windowListeners[WindowOf(m)], LAMBDA r : r.m = m)

\* C9: a listen call made while an earlier one is in progress is rejected,
\* and a Messenger never has more than one broadcast receiver registered.
C9_SecondListenRejected ==
  \A m \in Msgrs :
    /\ Len(ReceiversOf(m)) <= 1
    /\ \A j, k \in 1..Len(listenCalls[m]) :
         (j < k /\ listenCalls[m][j].state = "pending") =>
            listenCalls[m][k].state = "rejected"

\* C10: a connect call made while an earlier one is in flight is rejected
\* and changes nothing: the sub-channel is the first call's, and one
\* handshake broadcast was sent.
C10_SecondConnectRejected ==
  \A m \in Msgrs :
    \A j, k \in 1..Len(connectCalls[m]) :
      (j < k /\ connectCalls[m][j].state = "pending") =>
         /\ connectCalls[m][k].state = "rejected"
         /\ messagePort_[m] = connectCalls[m][j].port
         /\ Len(broadcasts[m]) <= 1

\* ------------------------------------------- SpecExchange: request and reply
\* The two Messengers are CONNECTED (L listened, I connected, the broadcast
\* and the acknowledgment were delivered); either page then sends,
\* subscribes, unsubscribes and answers in any order. The subscribers that
\* answer are L's: were both sides to answer every message that is no reply
\* to a Pending Exchange, one send could be answered back and forth forever.
ConnectedWorld ==
  LET w1 == listen(InitWorld, mL, <<"https://i.example">>, FALSE)
      w2 == connect(w1, mI, wL, "*")
      w3 == DeliverToWindow(w2, wL)
  IN DeliverToPort(w3, <<mI, 1, 1>>)

XTopics == {PING, SERVICE_WORKER_STATE}
XData == {"d1", "d2"}
XCallbacks(m) == IF m = mL THEN {"cbNote", "cbReply"} ELSE {"cbNote"}

\* The two Messengers of the exchange.
XMsgrs == {mL, mI}

XInit == Start(ConnectedWorld)

XSend ==
  \E m \in XMsgrs, t \in XTopics, d \in XData :
    /\ ncalls < MaxOps
    /\ Commit(Called(send(World, m, t, d)))

XOn ==
  \E m \in XMsgrs, t \in XTopics :
    \E cb \in XCallbacks(m) :
      /\ ncalls < MaxOps
      /\ Commit(Called(on(World, m, t, cb)))

XOff ==
  \E m \in XMsgrs, t \in XTopics :
    \E cb \in XCallbacks(m) \cup {NoCallback} :
      /\ ncalls < MaxOps
      /\ Commit(Called(off(World, m, t, cb)))

\* The page calls the reply-sender that came with the outcome of one of its
\* resolved deferred results.
XReply ==
  \E m \in XMsgrs :
    \E i \in 1..Len(resolutions[m]) :
      /\ ncalls < MaxOps
      /\ Commit(Called(sendReply_(World, m, resolutions[m][i].replyId,
                                  resolutions[m][i].replyTopic, "again")))

XNext ==
  \/ XSend
  \/ XOn
  \/ XOff
  \/ XReply
  \/ DeliverPort

SpecExchange == XInit /\ [][XNext]_vars

\* ------------------------------------------------ claims on SpecExchange
Peer(m) == IF m = mL THEN mI ELSE mL

\* The envelope whose posting created m's deferred result d: send and
\* sendReply_ create one deferred result per envelope posted.
EnvelopeOf(m, d) == wire[m][d].env

\* The envelopes the peer posted that were delivered to m, as indices of the
\* peer's wire: the channel delivers in order.
DeliveredTo(m) ==
  1..(Len(wire[Peer(m)]) - Len(portQueue[messagePort_[m]]))

\* The delivered replies that carry the id.
RepliesTo(m, id) ==
  {j \in DeliveredTo(m) :
     wire[Peer(m)][j].env.isReply /\ wire[Peer(m)][j].env.id = id}

ResolutionsOf(m, d) ==
  {i \in 1..Len(resolutions[m]) : resolutions[m][i].deferred = d}

Min(S) == CHOOSE x \in S : \A y \in S : x <= y

\* C7: after send(topic, d) and the peer's reply with the same id and
\* payload r, the deferred result of the send is resolved with r (and the
\* reply-sender of that id and topic), its Pending Exchange is gone, and no
\* later reply with that id resolves it again.
C7_SendReplyResolvesOnce ==
  \A m \in Msgrs :
    \A d \in 1..Len(wire[m]) :
      LET sent == EnvelopeOf(m, d)
          replies == RepliesTo(m, sent.id)
      IN (~sent.isReply /\ replies # {}) =>
           /\ Cardinality(ResolutionsOf(m, d)) = 1
           /\ \A i \in ResolutionsOf(m, d) :
                /\ resolutions[m][i].data = wire[Peer(m)][Min(replies)].env.data
                /\ resolutions[m][i].replyId = sent.id
                /\ resolutions[m][i].replyTopic = sent.topic
           /\ \A x \in messages_[m] : x.promiseResolver # d

\* I sent, two subscribers of L answered with the same id, and both replies
\* were delivered to I.
C7_Witness ==
  \E d \in 1..Len(wire[mI]) :
    /\ ~EnvelopeOf(mI, d).isReply
    /\ EnvelopeOf(mI, d).data = "d2"
    /\ Cardinality(RepliesTo(mI, EnvelopeOf(mI, d).id)) = 2
    /\ \E i \in ResolutionsOf(mI, d) : resolutions[mI][i].data = "answer to d2"

\* The message at the head of port p's queue is delivered in this step.
Delivered(p) == portQueue[p] # <<>> /\ portQueue'[p] = Tail(portQueue[p])

\* The envelopes delivered to m that are no replies and carry the topic.
RequestsTo(m, topic) ==
  {j \in DeliveredTo(m) :
     ~wire[Peer(m)][j].env.isReply /\ wire[Peer(m)][j].env.topic = topic}

\* C13: where a topic has no subscriber, on(topic, cb) followed by
\* off(topic, cb) leaves no subscriber for the topic; and the delivery of an
\* envelope that is no reply, on a topic whose subscriber list was emptied,
\* invokes no callback and sends nothing.
C13_OnThenOff ==
  /\ [](\A m \in XMsgrs, t \in XTopics :
          \A cb \in XCallbacks(m) :
            (listeners_[m][t] = NoList \/ listeners_[m][t] = <<>>) =>
               off(on(World, m, t, cb), m, t, cb).listeners_[m][t] = <<>>)
  /\ [][\A m \in XMsgrs :
          LET p == messagePort_[m]
          IN (/\ Delivered(p)
              /\ ~Head(portQueue[p]).isReply
              /\ listeners_[m][Head(portQueue[p]).topic] = <<>>)
             => calls'[m] = calls[m] /\ wire' = wire]_vars

\* L subscribed to a topic, got an envelope, unsubscribed, and the next
\* envelope on the topic, delivered too, invoked nothing.
C13_Witness ==
  /\ listeners_[mL][PING] = <<>>
  /\ Cardinality(RequestsTo(mL, PING)) = 2
  /\ Len(calls[mL]) = 1
  /\ calls[mL][1].id = <<mI, 1>>

\* The callback neither subscribes nor unsubscribes when it runs.
Plain(cb) == cb \in {"cbNote", "cbReply"}

\* What the callbacks of the list record when each is given the envelope.
InvocationsOf(list, env) ==
  [i \in 1..Len(list) |->
     [callback |-> list[i], data |-> env.data, id |-> env.id,
      topic |-> env.topic]]

\* What the answering callbacks of the list post on port p, each through
\* the reply-sender it was given.
AnswersOf(list, env, p) ==
  LET repliers == SelectSeq(list, LAMBDA cb : cb = "cbReply")
  IN [i \in 1..Len(repliers) |->
        [port |-> p,
         env |-> [id |-> env.id, topic |-> env.topic,
                  data |-> Answer(env.data), isReply |-> TRUE]]]

\* C14: when an envelope that is no reply arrives, every callback subscribed
\* to its topic (callbacks that leave the subscriptions alone) is invoked
\* once, in the order of the on calls, with the envelope's payload and a
\* reply-sender bound to the envelope's id and topic; no callback of another
\* topic is invoked.
C14_DispatchInOrder ==
  [][\A m \in XMsgrs :
       LET p == messagePort_[m]
           env == Head(portQueue[p])
           list == listeners_[m][env.topic]
       IN (/\ Delivered(p)
           /\ ~env.isReply
           /\ list # NoList
           /\ \A i \in 1..Len(list) : Plain(list[i]))
          => /\ calls'[m] = calls[m] \o InvocationsOf(list, env)
             /\ wire'[m] = wire[m] \o AnswersOf(list, env, p)
             /\ listeners_' = listeners_]_vars

\* The Pending Exchanges of m registered under the id.
PendingFor(m, id) == {x \in messages_[m] : x.id = id}

\* C19: the delivery of an envelope with isReply=true whose id has a
\* Pending Exchange removes that exchange and resolves its deferred result,
\* and no other, with the envelope's payload and a reply-sender bound to the
\* same id and to the topic of the exchange; no subscriber is invoked and
\* nothing is transmitted, subscribers of the envelope's topic or not.
C19_ReplyResolvesOnly ==
  [][\A m \in XMsgrs :
       LET p == messagePort_[m]
           env == Head(portQueue[p])
           found == PendingFor(m, env.id)
       IN (Delivered(p) /\ env.isReply /\ found # {})
          => /\ messages_'[m] = messages_[m] \ found
             /\ \E x \in found :
                  resolutions'[m] =
                    Append(resolutions[m],
                           [deferred |-> x.promiseResolver,
                            data |-> env.data, replyId |-> env.id,
                            replyTopic |-> x.topic])
             /\ \A n \in XMsgrs \ {m} :
                  resolutions'[n] = resolutions[n]
                    /\ messages_'[n] = messages_[n]
             /\ calls' = calls
             /\ wire' = wire]_vars

\* L's subscriber answered I's message, which registered an exchange at L;
\* I answered back through the reply-sender of its outcome, and that reply
\* resolved L's deferred result while L's subscriber, still subscribed to
\* the topic, was not invoked a second time.
C19_Witness ==
  /\ listeners_[mL][PING] = <<"cbReply">>
  /\ Len(resolutions[mL]) = 1
  /\ resolutions[mL][1].data = "again"
  /\ resolutions[mL][1].replyTopic = PING
  /\ Len(calls[mL]) = 1
  /\ PendingFor(mL, resolutions[mL][1].replyId) = {}

\* C20 as stated: the delivery of an envelope that is no reply to a Pending
\* Exchange resolves no deferred result and leaves the Correlation Registry
\* as it was.
C20_RegistryUntouched ==
  [][\A m \in XMsgrs :
       LET p == messagePort_[m]
           env == Head(portQueue[p])
       IN (Delivered(p) /\ ~(env.isReply /\ PendingFor(m, env.id) # {}))
          => resolutions' = resolutions /\ messages_' = messages_]_vars

\* C20: the delivery of an envelope that is no reply to a Pending Exchange
\* (an envelope with isReply=true whose id has none included) changes
\* nothing when its topic has no subscriber list, and otherwise invokes the
\* topic's subscribers in order; it resolves no deferred result and removes
\* no Pending Exchange, and the only exchange it can add is the one a
\* subscriber registers under the envelope's id by calling its
\* reply-sender.
C20_NewMessage ==
  [][\A m \in XMsgrs :
       LET p == messagePort_[m]
           env == Head(portQueue[p])
           list == listeners_[m][env.topic]
       IN (Delivered(p) /\ ~(env.isReply /\ PendingFor(m, env.id) # {}))
          => /\ resolutions' = resolutions
             /\ list = NoList =>
                  calls' = calls /\ wire' = wire /\ messages_' = messages_
             /\ list # NoList =>
                  /\ calls'[m] = calls[m] \o InvocationsOf(list, env)
                  /\ wire'[m] = wire[m] \o AnswersOf(list, env, p)
             /\ \A x \in messages_[m] : PendingFor(m, x.id)' # {}
             /\ \A x \in messages_'[m] :
                  \/ x \in messages_[m]
                  \/ /\ x.id = env.id
                     /\ list # NoList
                     /\ \E i \in 1..Len(list) : list[i] = "cbReply"]_vars

\* Two subscribers of L answered one message of I: the first reply resolved
\* I's deferred result, the second, whose id had no Pending Exchange left,
\* went to I's subscriber as a new message.
C20_Witness ==
  /\ Len(resolutions[mI]) = 1
  /\ resolutions[mI][1].data = "answer to d1"
  /\ Len(calls[mI]) = 1
  /\ calls[mI][1].data = "answer to d1"
  /\ calls[mI][1].id = resolutions[mI][1].replyId

\* L has two subscribers on one topic and one on another; an envelope on the
\* first topic reached the two, in the order they subscribed.
C14_Witness ==
  /\ listeners_[mL][PING] = <<"cbReply", "cbNote">>
  /\ listeners_[mL][SERVICE_WORKER_STATE] = <<"cbNote">>
  /\ Len(calls[mL]) = 2
  /\ calls[mL][1].callback = "cbReply"
  /\ calls[mL][2].callback = "cbNote"
  /\ calls[mL][1].id = calls[mL][2].id
  /\ calls[mL][1].topic = PING

\* ------------------------------------- SpecConnected: calls once CONNECTED
\* The two Messengers are CONNECTED; either page then calls listen and
\* connect again, with any arguments, and sends.
CListen ==
  \E m \in XMsgrs, a \in AllowLists, d \in BOOLEAN :
    /\ ncalls < MaxOps
    /\ Commit(Called(listen(World, m, a, d)))

CConnect ==
  \E m \in XMsgrs, o \in ExpectedOrigins :
    \E t \in {WindowOf(Peer(m)), NoWindow} :
      /\ ncalls < MaxOps
      /\ Commit(Called(connect(World, m, t, o)))

CSend ==
  \E m \in XMsgrs :
    /\ ncalls < MaxOps
    /\ Commit(Called(send(World, m, PING, "d1")))

CNext ==
  \/ CListen
  \/ CConnect
  \/ CSend
  \/ DeliverPort

SpecConnected == XInit /\ [][CNext]_vars

\* ----------------------------------------------- claims on SpecConnected
\* listen, or connect, is called on m in this step.
ListenCalled(m) == Len(listenCalls'[m]) = Len(listenCalls[m]) + 1
ConnectCalled(m) == Len(connectCalls'[m]) = Len(connectCalls[m]) + 1

\* C11: a listen or a connect called on a CONNECTED Messenger is rejected
\* and changes nothing: the Messenger stays CONNECTED on the same
\* sub-channel, no receiver is registered on a window or on a port, no
\* channel is created and no handshake broadcast is sent.
C11_RejectedWhenConnected ==
  [][\A m \in Msgrs :
       (connected_[m] /\ (ListenCalled(m) \/ ConnectCalled(m))) =>
          /\ ListenCalled(m) =>
                listenCalls'[m][Len(listenCalls'[m])].state = "rejected"
          /\ ConnectCalled(m) =>
                connectCalls'[m][Len(connectCalls'[m])].state = "rejected"
          /\ connected_' = connected_
          /\ messagePort_' = messagePort_
          /\ windowListeners' = windowListeners
          /\ portListeners' = portListeners
          /\ portStarted' = portStarted
          /\ chanCount' = chanCount
          /\ broadcasts' = broadcasts
          /\ windowQueue' = windowQueue
          /\ portQueue' = portQueue
          /\ wire' = wire
          /\ messages_' = messages_]_vars

\* Both listen and connect were called on the CONNECTED listener and on the
\* CONNECTED initiator, connect also without its arguments.
C11_Witness ==
  /\ \A m \in XMsgrs :
        /\ connected_[m]
        /\ \E k \in 1..Len(listenCalls[m]) : listenCalls[m][k].state = "rejected"
        /\ \E k \in 1..Len(connectCalls[m]) :
              connectCalls[m][k].state = "rejected"
  /\ \E k \in 1..Len(connectCalls[mL]) :
        connectCalls[mL][k].expectedRemoteOrigin = NoOrigin

\* --------------------------------- SpecHandshake: connect, then a request
\* L is listening, not suspended, with I's origin in its allow-list in one
\* form or another; I connects to L's window; L's page subscribes, and I,
\* once CONNECTED, sends.
HAllowLists ==
  {<<"https://i.example">>,
   <<"https://other.example", "HTTPS://I.Example/">>,
   <<"https://i.example/amp/frame.html">>}

HInit ==
  \E a \in HAllowLists : Start(listen(InitWorld, mL, a, FALSE))

HConnect ==
  \E o \in {"*", "https://l.example"} :
    /\ connectCalls[mI] = <<>>
    /\ Commit(Called(connect(World, mI, wL, o)))

HOn ==
  \E t \in XTopics, cb \in {"cbReply", "cbNote"} :
    /\ ncalls < MaxOps
    /\ Commit(Called(on(World, mL, t, cb)))

HSend ==
  \E t \in XTopics, d \in XData :
    /\ connected_[mI]
    /\ ncalls < MaxOps
    /\ Commit(Called(send(World, mI, t, d)))

HNext ==
  \/ HConnect
  \/ HOn
  \/ HSend
  \/ DeliverWindow
  \/ DeliverPort

SpecHandshake == HInit /\ [][HNext]_vars

\* ----------------------------------------------- claims on SpecHandshake
\* Every message posted was delivered.
NothingInFlight ==
  /\ \A win \in Windows : windowQueue[win] = <<>>
  /\ \A p \in DOMAIN portQueue : portQueue[p] = <<>>

\* A subscriber of m answered the envelope of that id.
AnsweredBy(m, id) ==
  \E i \in 1..Len(calls[m]) :
    calls[m][i].callback = "cbReply" /\ calls[m][i].id = id

\* C15: I connected to the listening L; no message waits at a port that
\* nobody will start, and once every message is delivered both Messengers
\* are CONNECTED, listen and connect have resolved, and every request I sent
\* that a subscriber of L answered has its deferred result resolved, once,
\* with the answer.
C15_ConnectedAndAnswered ==
  /\ \A p \in DOMAIN portQueue : portQueue[p] # <<>> => portStarted[p]
  /\ (connectCalls[mI] # <<>> /\ NothingInFlight) =>
       /\ connected_[mL] /\ connected_[mI]
       /\ listenCalls[mL][1].state = "resolved"
       /\ connectCalls[mI][1].state = "resolved"
       /\ messagePort_[mL] = OtherPort(messagePort_[mI])
       /\ \A d \in 1..Len(wire[mI]) :
            AnsweredBy(mL, EnvelopeOf(mI, d).id) =>
               /\ Cardinality(ResolutionsOf(mI, d)) = 1
               /\ \A i \in ResolutionsOf(mI, d) :
                    resolutions[mI][i].data = Answer(EnvelopeOf(mI, d).data)

\* L's allow-list names I's origin in another form, I connected, sent a
\* request, a subscriber of L answered it, and everything was delivered.
C15_Witness ==
  /\ listenCalls[mL][1].allowedOrigins # <<"https://i.example">>
  /\ connected_[mL] /\ connected_[mI]
  /\ NothingInFlight
  /\ \E d \in 1..Len(wire[mI]) :
        /\ AnsweredBy(mL, EnvelopeOf(mI, d).id)
        /\ \E i \in ResolutionsOf(mI, d) :
              resolutions[mI][i].data = "answer to d1"

OAllowLists == HAllowLists \cup AllowLists \cup {<<"null">>}

OInit ==
  \E a \in OAllowLists : Start(listen(InitWorld, mL, a, FALSE))

OPost ==
  \E o \in ForeignOrigins \cup {"null"} :
    /\ ncalls < MaxCalls
    /\ LET w1 == NewMessageChannel(World, Foreign)
           port2 == <<Foreign, w1.chanCount[Foreign], 2>>
       IN Commit(Called(PostToWindow(w1, Foreign, o, wL, "*",
                                     CONNECT_HANDSHAKE, port2)))

ONext ==
  \/ HConnect
  \/ OPost
  \/ DeliverWindow
  \/ DeliverPort

SpecOrigins == OInit /\ [][ONext]_vars

\* C25: a handshake broadcast delivered to a listener that is still
\* listening is accepted (its port adopted, the listen resolved) exactly
\* when some entry of the allow-list has the normalized origin of the
\* sender, whatever the entry's case, trailing slash or path; otherwise
\* nothing of the listener changes.
C25_NormalizedComparison ==
  [][(Delivers(wL) /\ ReceiversOf(mL) # <<>>
        /\ Head(windowQueue[wL]).topic = CONNECT_HANDSHAKE)
     => LET ev == Head(windowQueue[wL])
        IN IF InAllowList(ev.origin, listenCalls[mL][1].allowedOrigins)
             THEN /\ messagePort_'[mL] = ev.port
                  /\ listenCalls'[mL][1].state = "resolved"
                  /\ ReceiversOf(mL)' = <<>>
             ELSE /\ messagePort_'[mL] = messagePort_[mL]
                  /\ listenCalls' = listenCalls
                  /\ windowListeners' = windowListeners]_vars

\* Accepted through an entry that is not the sender's origin as a string,
\* after a broadcast from another origin was turned down.
C25_Witness ==
  /\ listenCalls[mL][1].allowedOrigins =
       <<"https://other.example", "HTTPS://I.Example/">>
  /\ listenCalls[mL][1].state = "resolved"
  /\ Len(windowLog[wL]) = 2
  /\ windowLog[wL][1].origin = "https://evil.example"
  /\ windowLog[wL][2].origin = "https://i.example"
  /\ messagePort_[mL] = windowLog[wL][2].port

\* ------------------- SpecDispatch: subscribers that change the list
\* The connected pair again. L's page subscribes to PING callbacks of three
\* kinds: one that only notes what it got, one that unsubscribes itself
\* when it runs, one that subscribes a further callback when it runs; I
\* sends on the topic.
DCallbacks == {"cbNote", "cbOnce", "cbSubscribe"}

DOn ==
  \E cb \in DCallbacks :
    /\ ncalls < MaxOps
    /\ Commit(Called(on(World, mL, PING, cb)))

DSend ==
  \E d \in XData :
    /\ ncalls < MaxOps
    /\ Commit(Called(send(World, mI, PING, d)))

DNext ==
  \/ DOn
  \/ DSend
  \/ DeliverPort

SpecDispatch == XInit /\ [][DNext]_vars

\* C21 as stated: the dispatch of an envelope invokes the callbacks that
\* were subscribed to its topic when it arrived, each once and in insertion
\* order, and no other, also when a callback calls on or off for the topic
\* while it runs.
C21_DispatchUsesSnapshot ==
  [][LET p == messagePort_[mL]
         env == Head(portQueue[p])
         list == listeners_[mL][env.topic]
     IN (Delivered(p) /\ ~env.isReply /\ list # NoList)
        => calls'[mL] = calls[mL] \o InvocationsOf(list, env)]_vars

\* -------------------- SpecFirstMessage: what the initiator receives first
\* L listens for I's origin, with the handshake delayed or not, and answers
\* PING; I has a subscriber for PING. I connects once; both send on the
\* sub-channel as soon as they hold a port of it, before or after the
\* acknowledgment.
FInit ==
  \E d \in BOOLEAN :
    Start(on(on(listen(InitWorld, mL, <<"https://i.example">>, d),
                mL, PING, "cbReply"),
             mI, PING, "cb"))

FConnect ==
  /\ connectCalls[mI] = <<>>
  /\ Commit(Called(connect(World, mI, wL, "*")))

FSend ==
  \E m \in XMsgrs :
    /\ ncalls < MaxCalls
    /\ messagePort_[m] # NoPort
    /\ Commit(Called(send(World, m, PING, "d1")))

FFinish ==
  /\ ncalls < MaxCalls
  /\ messagePort_[mL] # NoPort
  /\ Commit(Called(finishListenHandshake(World, mL)))

FNext ==
  \/ FConnect
  \/ FSend
  \/ FFinish
  \/ DeliverWindow
  \/ DeliverPort

SpecFirstMessage == FInit /\ [][FNext]_vars

\* m's connect call is in flight: the broadcast is out, no message has come
\* back on the sub-channel.
Connecting(m) ==
  /\ connectCalls[m] # <<>>
  /\ connectCalls[m][Len(connectCalls[m])].state = "pending"
  /\ ~connected_[m]

\* C18: the first message delivered on the sub-channel of a connecting
\* initiator makes it CONNECTED and resolves its connect, whatever the
\* message is, and is consumed: no subscriber is invoked, no deferred result
\* resolved, the registry is left as it was and nothing is transmitted. A
\* later message for a subscribed topic that is no reply reaches the
\* subscriber.
C18_FirstMessageIsAck ==
  [][(messagePort_[mI] # NoPort /\ Delivered(messagePort_[mI])) =>
       LET env == Head(portQueue[messagePort_[mI]])
       IN /\ Connecting(mI) =>
               /\ connected_'[mI]
               /\ connectCalls'[mI][Len(connectCalls[mI])].state = "resolved"
               /\ calls'[mI] = calls[mI]
               /\ resolutions'[mI] = resolutions[mI]
               /\ messages_'[mI] = messages_[mI]
               /\ wire'[mI] = wire[mI]
          /\ (connected_[mI] /\ env.topic = PING /\ ~env.isReply) =>
               calls'[mI] = Append(calls[mI],
                                   [callback |-> "cb", data |-> env.data,
                                    id |-> env.id, topic |-> env.topic])]_vars

\* I is CONNECTED by a first message that was a reply to a message of its
\* own that is still a Pending Exchange, and by one that was a plain PING.
FirstWasReply ==
  /\ connected_[mI]
  /\ wire[mL] # <<>>
  /\ wire[mL][1].env.isReply
  /\ \E x \in messages_[mI] : x.id = wire[mL][1].env.id
  /\ portQueue[messagePort_[mI]] = Tail([i \in 1..Len(wire[mL]) |-> wire[mL][i].env])

C18_Witness ==
  /\ FirstWasReply
  /\ calls[mI] = <<>>
  /\ resolutions[mI] = <<>>

\* ------------------------------- SpecWildcard: `*` in the allow-list
\* L is listening with an allow-list that holds `*`; I connects to L's
\* window and sends, and a foreign window posts what it likes to it.
WAllowLists == {<<"*">>, <<"https://i.example", "*">>}

WInit ==
  \E a \in WAllowLists, d \in BOOLEAN :
    Start(listen(InitWorld, mL, a, d))

WNext ==
  \/ Connect
  \/ Send
  \/ PostForeign
  \/ DeliverWindow
  \/ DeliverPort

SpecWildcard == WInit /\ [][WNext]_vars

\* A broadcast of the handshake topic was delivered to the window.
HandshakeDelivered(win) ==
  \E i \in 1..Len(windowLog[win]) : windowLog[win][i].topic = CONNECT_HANDSHAKE

\* C16 as stated: a listener whose allow-list holds `*` accepts a
\* connect-handshake broadcast from any origin: once one was delivered, the
\* listen has resolved and a sub-channel is adopted, and no error was
\* raised.
C16_WildcardAccepts ==
  HandshakeDelivered(wL) =>
    /\ listenCalls[mL][1].state = "resolved"
    /\ messagePort_[mL] # NoPort
    /\ errors = {}

\* ------------------------------------------------- more claims on Spec
\* L's listen was called once and has accepted a handshake broadcast.
AcceptedOnce(m) ==
  /\ Len(listenCalls[m]) = 1
  /\ listenCalls[m][1].state = "resolved"

\* C17: once a listener whose listen was called a single time has accepted
\* a connect-handshake broadcast, it has no broadcast receiver registered,
\* and the delivery of any later broadcast to its window changes nothing:
\* the adopted sub-channel stays, the listen stays resolved, nothing more is
\* transmitted and no receiver comes back.
C17_AcceptsOnce ==
  [][AcceptedOnce(mL) =>
       /\ ReceiversOf(mL) = <<>>
       /\ Delivers(wL) =>
            /\ messagePort_' = messagePort_
            /\ listenCalls' = listenCalls
            /\ windowListeners' = windowListeners
            /\ connected_' = connected_
            /\ wire' = wire
            /\ portListeners' = portListeners
            /\ portStarted' = portStarted
            /\ portQueue' = portQueue
            /\ messages_' = messages_
            /\ errors' = errors]_vars

\* After the accepted broadcast, a second handshake broadcast from the
\* allow-listed origin was delivered to the listener's window.
C17_Witness ==
  /\ AcceptedOnce(mL)
  /\ listenCalls[mL][1].allowedOrigins = <<"https://i.example">>
  /\ \E i, j \in 1..Len(windowLog[wL]) :
       /\ i < j
       /\ windowLog[wL][i].topic = CONNECT_HANDSHAKE
       /\ windowLog[wL][i].origin = "https://i.example"
       /\ windowLog[wL][j].topic = CONNECT_HANDSHAKE
       /\ windowLog[wL][j].origin = "https://i.example"
       /\ windowLog[wL][j].port # windowLog[wL][i].port
  /\ messagePort_[mL] = windowLog[wL][1].port

\* C12: a connect called without a target context or without an expected
\* origin is rejected, sends no handshake broadcast and changes nothing of
\* the Messenger: no channel is created, no port is stored and no receiver
\* is registered.
C12_ConnectWithoutArguments ==
  [][\A m \in Msgrs :
       (/\ ConnectCalled(m)
        /\ LET call == connectCalls'[m][Len(connectCalls'[m])]
           IN \/ call.remoteWindowContext = NoWindow
              \/ call.expectedRemoteOrigin = NoOrigin)
       => /\ connectCalls'[m][Len(connectCalls'[m])].state = "rejected"
          /\ broadcasts' = broadcasts
          /\ windowQueue' = windowQueue
          /\ messagePort_' = messagePort_
          /\ chanCount' = chanCount
          /\ portListeners' = portListeners
          /\ connected_' = connected_]_vars

\* ------------------------------------------- SpecProber: the helper frame
\* The helper frame is given the first n of the URLs; the page that embeds
\* it connects to it once the frame's script has run; each URL's remote
\* frame finds one of these in its browser.
WorkerUrl == "https://alt.example/OneSignalSDKWorker.js?appId=1"

Subscribed ==
  [permission |-> "granted", controller |-> TRUE, scriptURL |-> WorkerUrl,
   workerState |-> "activated", workerReply |-> "true", loads |-> TRUE]

RemoteEnvs ==
  {Subscribed,
   \* permission was not granted
   [Subscribed EXCEPT !.permission = "denied"],
   \* no worker controls the frame
   [Subscribed EXCEPT !.controller = FALSE],
   \* the worker was still activating when its state was read
   [Subscribed EXCEPT !.workerState = "activating"],
   \* the worker answers that there is no subscription
   [Subscribed EXCEPT !.workerReply = "false"],
   \* the controlling worker is another script
   [Subscribed EXCEPT !.scriptURL = "https://alt.example/sw.js"],
   \* the worker never answers
   [Subscribed EXCEPT !.workerReply = "never"],
   \* the frame's document never runs the script
   [Subscribed EXCEPT !.loads = FALSE]}

PInit ==
  \E n \in 0..MaxUrls :
    \E envs \in [1..n -> RemoteEnvs] :
      Start([InitWorld EXCEPT !.urls = [i \in 1..n |-> ProbeUrl(i)],
                              !.remoteEnv = envs])

\* The frame's page calls run(urlsToCheck).
RunHelperFrame ==
  /\ pcRun = "idle"
  /\ Commit(Uncaught(run(World)))

\* The embedding page, on the helper frame's load event, connects to it.
HostConnect ==
  /\ pcRun # "idle"
  /\ connectCalls[mHost] = <<>>
  /\ Commit(Uncaught(connect(World, mHost, wHelper, "https://site.example")))

\* The script of a remote frame runs, before the iframe's load event.
RemoteRun ==
  \E i \in iframes :
    /\ pcRemote[i] = "none"
    /\ remoteEnv[i].loads
    /\ Commit(Uncaught(AmpRemoteFrame_run(World, i)))

\* The service worker of a remote frame answers its query.
WorkerReply ==
  \E i \in iframes :
    /\ pcRemote[i] = "awaitWorker"
    /\ remoteEnv[i].workerReply # "never"
    /\ Commit(Uncaught(AmpRemoteFrame_workerReplied(World, i)))

\* The load event of the iframe the checker is waiting for.
IframeLoad ==
  \E i \in iframes :
    /\ probeIdx = i
    /\ probePc = "awaitLoad"
    /\ remoteEnv[i].loads => pcRemote[i] # "none"
    /\ Commit(Uncaught(iframeOnload(World, i)))

PNext ==
  \/ RunHelperFrame
  \/ HostConnect
  \/ RemoteRun
  \/ WorkerReply
  \/ IframeLoad
  \/ DeliverWindow
  \/ DeliverPort

SpecProber == PInit /\ [][PNext]_vars

\* ------------------------------------------------- claims on SpecProber
ProbeTargets == 1..Len(urls)

\* The i-th target has delivered its state report.
Reported(i) == subscriptionState[i] # NoState

\* The i-th target never delivers a state report: its frame never runs, or
\* its worker never answers.
Silent(i) ==
  \/ ~remoteEnv[i].loads
  \/ remoteEnv[i].controller /\ remoteEnv[i].workerReply = "never"

\* The report the i-th target sends, if it sends one.
ReportOf(i) ==
  SubscriptionStateOf(remoteEnv[i],
    IF remoteEnv[i].controller THEN remoteEnv[i].workerReply ELSE Undefined)

\* Nothing more can happen: every message was delivered, every event fired.
Quiescent == ~(ENABLED PNext)

\* Iframes were created for targets after the i-th.
LoadedAfter(i) == \E k \in 1..Len(iframeLog) : iframeLog[k] > i

\* C2: while some target has not delivered its report, or some report
\* satisfies the subscription predicate, the helper frame has sent no
\* acknowledgment to the host page and neither the helper frame's Messenger
\* nor the host's is connected: the acknowledgment is sent only after every
\* target reported and every report failed the predicate.
C2_AckOnlyAfterAllFail ==
  (\E i \in ProbeTargets :
      ~Reported(i) \/ IsSubscribed(subscriptionState[i]) # "false")
  => /\ AcksSent(mAmp) = {}
     /\ ~connected_[mAmp]
     /\ ~connected_[mHost]

\* Two targets reported, both reports failed, and the host got the
\* acknowledgment.
C2_Witness ==
  /\ Len(urls) >= 2
  /\ \A i \in ProbeTargets :
        Reported(i) /\ IsSubscribed(subscriptionState[i]) = "false"
  /\ AcksSent(mAmp) # {}
  /\ connected_[mAmp]
  /\ connected_[mHost]

\* C3 as stated: when every target reports a state that fails the predicate
\* (the empty list included) and the host page connects, then once every
\* message is delivered the helper frame has sent the acknowledgment and its
\* Messenger is connected.
C3_HandshakeFinished ==
  (/\ \A i \in ProbeTargets :
        ~Silent(i) /\ IsSubscribed(ReportOf(i)) = "false"
   /\ broadcasts[mHost] # <<>>
   /\ Quiescent)
  => connected_[mAmp] /\ AcksSent(mAmp) # {}

\* C4: once a target's report satisfies the predicate, and the iframe of
\* that target has loaded, the checker is frozen at that target; from the
\* report on, no later target is loaded, the checker's run() has not
\* completed, finishListenHandshake was not invoked and the host got no
\* acknowledgment.
C4_FrozenForEver ==
  \A i \in ProbeTargets :
    (Reported(i) /\ IsSubscribed(subscriptionState[i]) = "true")
    => /\ probeIdx = i
       /\ probePc \in {"awaitLoad", "frozen"}
       /\ ~LoadedAfter(i)
       /\ pcRun = "checking"
       /\ finishCalls[mAmp] = 0
       /\ AcksSent(mAmp) = {}
       /\ ~connected_[mHost]
       /\ ~(ENABLED IframeLoad) => probePc = "frozen"

\* The checker is frozen at a target that is not the last one, and the
\* host's broadcast was accepted.
C4_Witness ==
  /\ probePc = "frozen"
  /\ probeIdx < Len(urls)
  /\ IsSubscribed(subscriptionState[probeIdx]) = "true"
  /\ messagePort_[mAmp] # NoPort

\* C5: while a target has not delivered its report, the checker's run() has
\* not completed, no later target was loaded and the handshake with the
\* host is not finished; so with a target that never delivers one, this is
\* so in every later state.
C5_StallsWithoutReport ==
  \A i \in ProbeTargets :
    ~Reported(i)
    => /\ probePc # "complete"
       /\ pcRun # "done"
       /\ ~LoadedAfter(i)
       /\ finishCalls[mAmp] = 0
       /\ ~connected_[mAmp]
       /\ AcksSent(mAmp) = {}

\* The iframe of a target whose frame never runs has loaded, the checker
\* awaits its report, there is a later target, and the host's broadcast was
\* accepted.
C5_Witness ==
  \E i \in ProbeTargets :
    /\ ~remoteEnv[i].loads
    /\ probeIdx = i
    /\ probePc = "awaitState"
    /\ i < Len(urls)
    /\ messagePort_[mAmp] # NoPort

\* C6 as stated: the checker does not stay at a silent target: once every
\* message is delivered and every load event fired, it is at a later target
\* or at the end of run().
C6_SilentTargetPassed ==
  \A i \in ProbeTargets :
    (probeIdx = i /\ Silent(i) /\ Quiescent)
    => (probeIdx > i \/ probePc = "complete")

\* C6, amended: a silent target is not treated as one that reports "not
\* subscribed": the checker never gets past it, run() neither completes nor
\* fails, the handshake is not finished, and no error is raised.
C6_SilentTargetStalls ==
  \A i \in ProbeTargets :
    Silent(i)
    => /\ probeIdx <= i
       /\ probePc \in {"none", "awaitLoad", "awaitState", "frozen"}
       /\ pcRun \in {"idle", "checking"}
       /\ subscriptionState[i] = NoState
       /\ ~connected_[mAmp]
       /\ errors = {}

\* The checker awaits the report of a silent target whose frame did connect
\* to the probe's Messenger, and nothing more can happen.
C6_Witness ==
  \E i \in ProbeTargets :
    /\ Silent(i)
    /\ connected_[Remote(i)]
    /\ probeIdx = i
    /\ probePc = "awaitState"
    /\ i < Len(urls)
    /\ Quiescent

\* C22: the targets are loaded in list order, each at most once; when the
\* iframe of a target is created, every earlier target has delivered its
\* report, its iframe is out of the document and its report failed the
\* predicate; at most one iframe is in the document and at most one probe
\* Messenger has a broadcast receiver registered.
C22_OneTargetAtATime ==
  /\ \A k \in 1..Len(iframeLog) : iframeLog[k] = k
  /\ \A k \in 1..Len(iframeLog) :
       \A i \in 1..(k - 1) :
         /\ Reported(i)
         /\ i \notin iframes
         /\ IsSubscribed(subscriptionState[i]) = "false"
  /\ Cardinality(iframes) <= 1
  /\ Cardinality({i \in ProbeTargets : ReceiversOf(Probe(i)) # <<>>}) <= 1

\* The second target's iframe is in the document, after the first target
\* reported and was torn down.
C22_Witness ==
  /\ iframeLog = <<1, 2>>
  /\ iframes = {2}
  /\ Reported(1)
  /\ messagePort_[Probe(1)] # NoPort

\* C23: once the check of a target has evaluated its report, the checker
\* is frozen at that target exactly when the report has permission
\* "granted", a controlling worker, worker state "activated", a true
\* subscription flag and a worker script URL with the expected fragment,
\* all five; with any of them failing the checker has gone on to the next
\* target or completed; the evaluation of a report never throws.
C23_FiveConditions ==
  \A i \in ProbeTargets :
    (Reported(i) /\ ~(probeIdx = i /\ probePc \in {"awaitLoad", "awaitState"}))
    => LET st == subscriptionState[i]
           all5 == /\ st.notificationPermission = "granted"
                   /\ st.serviceWorkerIsControllingFrame = "true"
                   /\ st.serviceWorkerState = "activated"
                   /\ st.serviceWorkerSubscriptionState = "true"
                   /\ st.serviceWorkerUrl
                        \in {"https://alt.example/OneSignalSDKWorker.js?appId=1",
                             "https://alt.example/OneSignalSDKWorker.js"}
       IN /\ probePc # "rejected"
          /\ all5 <=> (probeIdx = i /\ probePc = "frozen")
          /\ ~all5 <=> (probeIdx > i \/ probePc = "complete")

\* The first target's report failed on the script URL alone and the checker
\* went on; the second target's report passed and the checker is frozen.
C23_Witness ==
  /\ Len(urls) = 2
  /\ remoteEnv[1] = [Subscribed EXCEPT !.scriptURL = "https://alt.example/sw.js"]
  /\ Reported(1)
  /\ Reported(2)
  /\ probeIdx = 2
  /\ probePc = "frozen"

\* -------------- SpecSameOrigin: a target on the embedding page's origin
\* The helper frame as in SpecProber, given a list in which a target may be
\* a page of the origin of the AMP page that embeds the helper frame (the
\* parentOrigin the helper frame allows).
SamePageUrl == "https://page.example/amp-remote-frame.html"

SInit ==
  \E n \in 1..MaxUrls :
    \E u \in [1..n -> BOOLEAN] :
      \E envs \in [1..n -> {Subscribed, [Subscribed EXCEPT !.permission = "denied"]}] :
        Start([InitWorld EXCEPT
                 !.urls = [i \in 1..n |-> IF u[i] THEN SamePageUrl
                                          ELSE ProbeUrl(i)],
                 !.remoteEnv = envs])

SpecSameOrigin == SInit /\ [][PNext]_vars

\* C26 as stated: no two Messengers of one window hold the same private
\* sub-channel: a broadcast is adopted by one of them at most.
C26_NeverShared ==
  \A m1, m2 \in Msgrs :
    (m1 # m2 /\ WindowOf(m1) = WindowOf(m2) /\ messagePort_[m1] # NoPort)
    => messagePort_[m1] # messagePort_[m2]

\* --------------------- SpecWorkerQuery: queries for the service worker
\* The helper frame, given no target, has finished the handshake with the
\* AMP page; the page sends queries for the worker, the worker answers the
\* messages it was posted, in order, and may post messages nobody asked
\* for.
HelperConnected ==
  LET w1 == listenPartially(InitWorld)
      w2 == connect(w1, mHost, wHelper, "https://site.example")
      w3 == DeliverToWindow(w2, wHelper)
      w4 == finishListenHandshake(w3, mAmp)
  IN DeliverToPort(w4, <<mHost, 1, 1>>)

\* The payload of the worker's answer to the k-th message it was posted.
WorkerPayload(k) ==
  CASE k = 1 -> "answer 1"
    [] k = 2 -> "answer 2"
    [] k = 3 -> "answer 3"
    [] k = 4 -> "answer 4"
    [] OTHER -> "answer 5"

QInit == Start(HelperConnected)

QSend ==
  \E t \in WorkerCommands :
    /\ ncalls < MaxOps
    /\ Commit(Called(send(World, mHost, SERVICE_WORKER_QUERY, t)))

WorkerAnswers ==
  /\ workerAnswered < Len(workerLog)
  /\ LET k == workerAnswered + 1
     IN Commit(Uncaught(onPageMessageReceivedFromServiceWorker_(
                 [World EXCEPT !.workerAnswered = k],
                 workerLog[k].command, WorkerPayload(k))))

WorkerUnsolicited ==
  \E t \in WorkerCommands :
    /\ ncalls < MaxOps
    /\ Commit(Called(onPageMessageReceivedFromServiceWorker_(
                 World, t, "unsolicited")))

QNext ==
  \/ QSend
  \/ WorkerAnswers
  \/ WorkerUnsolicited
  \/ DeliverPort

SpecWorkerQuery == QInit /\ [][QNext]_vars

\* C27 as stated: the helper frame forwards to the AMP page only answers to
\* queries the page sent, and every query the worker has answered got one
\* reply, and one only, two queries for one topic outstanding together
\* included.
C27_EveryQueryAnsweredOnce ==
  LET Replies == {i \in 1..Len(wire[mAmp]) : wire[mAmp][i].env.isReply}
  IN /\ \A i \in Replies :
          \E k \in 1..Len(workerLog) :
            workerLog[k].id = wire[mAmp][i].env.id
     /\ \A k \in 1..workerAnswered :
          Cardinality({i \in Replies :
                         wire[mAmp][i].env.id = workerLog[k].id}) = 1

\* ------------------------------------------------ claims on CONNECTED
\* C28: a CONNECTED Messenger has a private sub-channel attached, and
\* whatever is called or delivered afterwards it stays CONNECTED on the same
\* sub-channel.
C28_ConnectedIsPermanent ==
  /\ [](\A m \in {mL, mI} : connected_[m] => messagePort_[m] # NoPort)
  /\ [][\A m \in {mL, mI} :
         connected_[m] => /\ connected_'[m]
                          /\ messagePort_'[m] = messagePort_[m]]_vars


\* C29: finishListenHandshake on a suspended listener that has accepted no
\* broadcast yet throws, transmits nothing, registers nothing and leaves the
\* Messenger not CONNECTED; and the call is not remembered: a listener whose
\* listens were all delayed transmits an acknowledgment only in a step in
\* which finishListenHandshake is invoked on it.
C29_EarlyFinishFails ==
  [][/\ (/\ ListensDelayed(mL)
         /\ messagePort_[mL] = NoPort
         /\ finishCalls'[mL] # finishCalls[mL])
        => /\ wire'[mL] = wire[mL]
           /\ messages_'[mL] = messages_[mL]
           /\ ~connected_'[mL]
           /\ messagePort_'[mL] = NoPort
           /\ "TypeError: messagePort_ is null" \in errors'
     /\ (/\ ListensDelayed(mL)
         /\ finishCalls'[mL] = finishCalls[mL])
        => AcksSent(mL)' = AcksSent(mL)]_vars

\* finishListenHandshake was invoked too early and failed; the broadcast was
\* accepted afterwards and the listen resolved, and no acknowledgment went
\* out.
C29_Witness ==
  /\ ListensDelayed(mL)
  /\ finishCalls[mL] = 1
  /\ "TypeError: messagePort_ is null" \in errors
  /\ messagePort_[mL] # NoPort
  /\ \E k \in 1..Len(listenCalls[mL]) : listenCalls[mL][k].state = "resolved"
  /\ wire[mL] = <<>>
  /\ ~connected_[mL]

\* C30: while the handshake of a listener is suspended, no subscriber of the
\* listener transmits a reply on the private sub-channel, and the message
\* that makes the initiator CONNECTED is never such a reply.
C30_SuspendedListenerSilent ==
  /\ (ListensDelayed(mL) /\ finishCalls[mL] = 0) =>
       \A i \in 1..Len(wire[mL]) : ~wire[mL][i].env.isReply
  /\ connected_[mI] => (wire[mL] # <<>> /\ ~wire[mL][1].env.isReply)

\* ------------------------------------------------------- claims on off
\* C31: off raises no error, also on a topic that never had a subscriber
\* and with a callback given; on such a topic it leaves the table as it is,
\* with a callback that is not subscribed it leaves the topic's list as it
\* is, and with a callback subscribed several times it removes the first
\* occurrence only.
C31_OffIsTolerant ==
  /\ "TypeError: listeners_[topic] is undefined" \notin errors
  /\ \A m \in XMsgrs, t \in XTopics :
       \A cb \in XCallbacks(m) \cup {NoCallback} :
         LET list == listeners_[m][t]
             after == off(World, m, t, cb).listeners_[m]
             subscribed == list # NoList /\ \E i \in 1..Len(list) : list[i] = cb
         IN /\ list = NoList => after = listeners_[m]
            /\ (list # NoList /\ cb # NoCallback /\ ~subscribed) =>
                 after = listeners_[m]
            /\ subscribed =>
                 after = [listeners_[m] EXCEPT
                            ![t] = Splice(list, IndexOf(list, cb))]

\* ------------------------------------------- the order of load and report
\* The state report of the i-th target was delivered to its probe.
ReportDelivered(i) ==
  \E k \in 1..Len(calls[Probe(i)]) : calls[Probe(i)][k].callback = "resolve"

\* C32: a state report delivered to the probe is the one the probe resolves
\* with, whether it comes before or after the iframe's load event: it is
\* kept while the load event is awaited, the probe never waits for a report
\* that was delivered, and once the load event has fired too the check of
\* the target has ended as the report says.
C32_ReportNeverLost ==
  \A i \in ProbeTargets :
    ReportDelivered(i) =>
      /\ subscriptionState[i] = ReportOf(i)
      /\ probeIdx >= i
      /\ (probeIdx = i /\ probePc # "awaitLoad") =>
           CASE IsSubscribed(ReportOf(i)) = "true" -> probePc = "frozen"
             [] IsSubscribed(ReportOf(i)) = "throws" -> probePc = "rejected"
             [] OTHER -> probePc = "complete" /\ i = Len(urls)

\* The report came first: it was delivered while the load event of the
\* iframe is still awaited, and it is kept.
C32_Witness ==
  \E i \in ProbeTargets :
    /\ ReportDelivered(i)
    /\ probeIdx = i
    /\ probePc = "awaitLoad"
    /\ subscriptionState[i] = ReportOf(i)

\* ------------------------------------------- one exchange per id
\* The deferred results of the answers L's subscribers gave, through their
\* reply-senders, to the envelope I sent with the id: I sends an envelope
\* with data of XData once, and what it sends again with the same id
\* carries other data.
AnswersTo(id) ==
  {d \in 1..Len(wire[mL]) :
     /\ wire[mL][d].env.isReply
     /\ wire[mL][d].env.id = id
     /\ wire[mL][d].env.data \in {Answer(x) : x \in XData}}

\* The ids of the envelopes I sent.
SentBy(m) == {<<m, n>> : n \in 1..nextId[m]}

\* C33: the registry holds one Pending Exchange per id at most; of the
\* answers several subscribers gave to one envelope, all with its id, only
\* the last is a Pending Exchange, a reply with that id resolves the last
\* one's deferred result and nothing else, and the deferred results of the
\* earlier ones are never resolved.
C33_OneExchangePerId ==
  /\ \A m \in XMsgrs :
       \A x, y \in messages_[m] : x.id = y.id => x = y
  /\ \A id \in SentBy(mI) :
       \A d \in AnswersTo(id) :
         IF \E e \in AnswersTo(id) : e > d
           THEN /\ ResolutionsOf(mL, d) = {}
                /\ \A x \in messages_[mL] : x.promiseResolver # d
           ELSE IF RepliesTo(mL, id) = {}
             THEN /\ ResolutionsOf(mL, d) = {}
                  /\ \E x \in messages_[mL] :
                       x.promiseResolver = d /\ x.id = id
             ELSE /\ Cardinality(ResolutionsOf(mL, d)) = 1
                  /\ \A i \in ResolutionsOf(mL, d) :
                       /\ resolutions[mL][i].replyId = id
                       /\ resolutions[mL][i].data =
                            wire[mI][Min(RepliesTo(mL, id))].env.data

\* Two subscribers of L answered one envelope of I, I replied with its id,
\* and the reply resolved the second answer's deferred result only.
C33_Witness ==
  \E id \in SentBy(mI) :
    \E d1, d2 \in AnswersTo(id) :
      /\ d1 < d2
      /\ RepliesTo(mL, id) # {}
      /\ ResolutionsOf(mL, d1) = {}
      /\ ResolutionsOf(mL, d2) # {}

====
